---- MODULE Spec2Model ----
(***************************************************************************)
(* Model of pyit600: the IT600Gateway session (src/pyit600/gateway.py).    *)
(* Tasks are asyncio tasks calling the gateway's coroutines; a step of the *)
(* model is the code a task runs between two suspension points.            *)
(***************************************************************************)
EXTENDS Integers, Sequences, FiniteSets, TLC

\* ------------------------------------------------------------------------
\* Python values.  An optional value is a sequence of length 0 (None, or a
\* missing dictionary key) or 1.
None == <<>>
Some(v) == <<v>>
Val(o) == o[1]

\* dict.get(cluster, {}).get(attr, None) on a raw record
Attr(ds, cluster, attr) ==
    IF ds[cluster] = None THEN None ELSE Val(ds[cluster])[attr]

\* dict assignment d[key] = value
DictSet(d, key, value) == (key :> value) @@ d

EmptyDict == <<>>

\* ------------------------------------------------------------------------
\* Constants of src/pyit600/const.py
HVAC_MODE_OFF == "off"
HVAC_MODE_HEAT == "heat"
HVAC_MODE_COOL == "cool"
HVAC_MODE_AUTO == "auto"
CURRENT_HVAC_OFF == "off"
CURRENT_HVAC_HEAT == "heating"
CURRENT_HVAC_HEAT_IDLE == "heating (idling)"
CURRENT_HVAC_COOL == "cooling"
CURRENT_HVAC_COOL_IDLE == "cooling (idling)"
CURRENT_HVAC_IDLE == "idle"
PRESET_FOLLOW_SCHEDULE == "Follow Schedule"
PRESET_PERMANENT_HOLD == "Permanent Hold"
PRESET_TEMPORARY_HOLD == "Temporary Hold"
PRESET_ECO == "Eco"
PRESET_OFF == "Off"
FAN_MODE_AUTO == "Auto"
FAN_MODE_HIGH == "High"
FAN_MODE_MEDIUM == "Medium"
FAN_MODE_LOW == "Low"
FAN_MODE_OFF == "Off"

\* ------------------------------------------------------------------------
\* Raw device records of a gateway response ("id" list entries).  Every
\* cluster is optional; inside a present cluster every attribute is optional.
BlankData == [UniID |-> None, Endpoint |-> None]
BlankGateway == [NetworkLANMAC |-> None, ModelIdentifier |-> None]
BlankTH == [LocalTemperature_x100 |-> None, HeatingSetpoint_x100 |-> None,
            HoldType |-> None, RunningState |-> None]
BlankTherS == [LocalTemperature_x100 |-> None, HeatingSetpoint_x100 |-> None,
               CoolingSetpoint_x100 |-> None, SystemMode |-> None,
               RunningState |-> None]
BlankRecord ==
    [data |-> None, sGateway |-> None, sIT600TH |-> None, sTherS |-> None,
     sComm |-> None, sFanS |-> None, sTherUIS |-> None, sIASZS |-> None,
     sBasicS |-> None, sIT600I |-> None, sTempS |-> None, sOnOffS |-> None,
     sLevelS |-> None, sButtonS |-> None, DeviceL |-> None, sZDO |-> None,
     sZDOInfo |-> None]

\* JSON text of sZDO.DeviceName: an object with a deviceName, or text that
\* json.loads rejects.
NameJson(n) == [valid |-> TRUE, deviceName |-> n]
BadJson == [valid |-> FALSE, deviceName |-> ""]

\* Results of decoding one record of a read-by-id response:
\*   skip     - unique id is None: "continue" before the per-record try
\*   raise    - an exception outside the per-record try: leaves the refresh
\*   filtered - "continue" inside the try
\*   error    - an exception inside the try: caught and logged
\*   device   - a snapshot was built
Skip == [tag |-> "skip"]
Raise == [tag |-> "raise"]
Filtered == [tag |-> "filtered"]
Error == [tag |-> "error"]
Device(d) == [tag |-> "device", device |-> d]

\* json.loads(device_status.get("sZDO", {}).get("DeviceName", default))["deviceName"]
NameRaises(ds) ==
    /\ Attr(ds, "sZDO", "DeviceName") # None
    /\ ~Val(Attr(ds, "sZDO", "DeviceName")).valid
DeviceName(ds, default) ==
    IF Attr(ds, "sZDO", "DeviceName") = None THEN default
    ELSE Val(Attr(ds, "sZDO", "DeviceName")).deviceName

\* True if device_status.get("sZDOInfo", {}).get("OnlineStatus_i", 1) == 1 else False
Available(ds) ==
    IF Attr(ds, "sZDOInfo", "OnlineStatus_i") = None THEN TRUE
    ELSE Val(Attr(ds, "sZDOInfo", "OnlineStatus_i")) = 1

\* device_status.get("DeviceL", {}).get("ModelIdentifier_i", None)
Model(ds) == Attr(ds, "DeviceL", "ModelIdentifier_i")

\* device_status.get("data", {}).get("UniID", None)
UniID(ds) == Attr(ds, "data", "UniID")

\* ------------------------------------------------------------------------
\* Per-record decoding of the six refresh loops.

\* Mutant of HexByte: the two digits are read as a decimal number
HexByteDecimal(digits) == 10 * digits[1] + digits[2]

\* int(move_to_level_f[:2], 16); a hex string is the sequence of its digits
HexByte(digits) == 16 * digits[1] + digits[2]

\* _refresh_gateway_device: one iteration of "for device_status in status['id']"
DecodeGateway(ds) ==
    IF Attr(ds, "sGateway", "NetworkLANMAC") = None THEN Skip
    ELSE IF ds.data = None THEN Error     \* device_status["data"]: KeyError
    ELSE Device([name |-> Attr(ds, "sGateway", "ModelIdentifier"),
                 unique_id |-> Val(Attr(ds, "sGateway", "NetworkLANMAC")),
                 data |-> Val(ds.data),
                 model |-> Attr(ds, "sGateway", "ModelIdentifier")])

\* Mutant of IsClosed: a cover one step from the end counts as closed
IsClosedNearly(current_position) ==
    current_position # None /\ Val(current_position) <= 1

\* is_closed=True if current_position == 0 else False
IsClosed(current_position) == current_position = Some(0)

\* _refresh_cover_devices: one iteration
DecodeCover(ds) ==
    IF UniID(ds) = None THEN Skip
    ELSE IF Attr(ds, "sButtonS", "Mode") = Some(0) THEN Filtered
    ELSE LET current_position == Attr(ds, "sLevelS", "CurrentLevel")
             move_to_level_f == Attr(ds, "sLevelS", "MoveToLevel_f")
             has_target == move_to_level_f # None /\ Len(Val(move_to_level_f)) >= 2
             set_position == IF has_target THEN Some(HexByte(Val(move_to_level_f)))
                             ELSE None
         IN IF NameRaises(ds) THEN Error
            \* current_position < set_position with current_position None: TypeError
            ELSE IF set_position # None /\ current_position = None THEN Error
            ELSE Device(
              [available |-> Available(ds),
               name |-> DeviceName(ds, "Unknown"),
               unique_id |-> Val(UniID(ds)),
               current_cover_position |-> current_position,
               is_opening |-> IF set_position = None THEN None
                              ELSE Some(Val(current_position) < Val(set_position)),
               is_closing |-> IF set_position = None THEN None
                              ELSE Some(Val(current_position) > Val(set_position)),
               is_closed |-> IsClosed(current_position),
               data |-> Val(ds.data),
               model |-> Model(ds)])

\* Mutant of SwitchId: the endpoint is not appended
SwitchIdBase(ds) == Val(UniID(ds))

\* unique_id + "_" + str(device_status["data"]["Endpoint"])
SwitchId(ds) == Val(UniID(ds)) \o "_" \o ToString(Val(Attr(ds, "data", "Endpoint")))

\* Mutant of DecodeSwitch: records with a level cluster are not skipped
DecodeSwitchWithLevel(ds) ==
    IF UniID(ds) = None THEN Skip
    ELSE IF Attr(ds, "data", "Endpoint") = None THEN Raise
    ELSE IF Attr(ds, "sOnOffS", "OnOff") = None THEN Filtered
    ELSE IF NameRaises(ds) THEN Error
    ELSE Device(
      [available |-> Available(ds),
       name |-> DeviceName(ds, SwitchId(ds)),
       unique_id |-> SwitchId(ds),
       is_on |-> (Attr(ds, "sOnOffS", "OnOff") = Some(1)),
       device_class |-> IF Model(ds) = Some("SP600") \/ Model(ds) = Some("SPE600")
                        THEN "outlet" ELSE "switch",
       data |-> Val(ds.data),
       model |-> Model(ds)])

\* _refresh_switch_devices: one iteration
DecodeSwitch(ds) ==
    IF UniID(ds) = None THEN Skip
    \* device_status["data"]["Endpoint"] before the try: KeyError leaves the loop
    ELSE IF Attr(ds, "data", "Endpoint") = None THEN Raise
    ELSE IF ds.sLevelS # None THEN Filtered
    ELSE IF Attr(ds, "sOnOffS", "OnOff") = None THEN Filtered
    ELSE IF NameRaises(ds) THEN Error
    ELSE Device(
      [available |-> Available(ds),
       name |-> DeviceName(ds, SwitchId(ds)),
       unique_id |-> SwitchId(ds),
       is_on |-> (Attr(ds, "sOnOffS", "OnOff") = Some(1)),
       device_class |-> IF Model(ds) = Some("SP600") \/ Model(ds) = Some("SPE600")
                        THEN "outlet" ELSE "switch",
       data |-> Val(ds.data),
       model |-> Model(ds)])

\* _refresh_sensor_devices: one iteration
DecodeSensor(ds) ==
    IF UniID(ds) = None THEN Skip
    ELSE IF Attr(ds, "sTempS", "MeasuredValue_x100") = None THEN Filtered
    ELSE IF NameRaises(ds) THEN Error
    ELSE Device(
      [available |-> Available(ds),
       name |-> DeviceName(ds, "Unknown"),
       unique_id |-> Val(UniID(ds)) \o "_temp",
       \* temperature / 100, kept as a count of hundredths
       state |-> [hundredths |-> Val(Attr(ds, "sTempS", "MeasuredValue_x100"))],
       device_class |-> "temperature",
       data |-> Val(ds.data),
       model |-> Model(ds)])

\* Mutant of IsOnAttr: the alarm status is read for every model
IsOnAttrAlarm(ds) == Attr(ds, "sIASZS", "ErrorIASZSAlarmed1")

\* the attribute is_on is read from: relay status for valves and receivers,
\* alarm status for every other model
IsOnAttr(ds) ==
    IF Model(ds) = Some("it600MINITRV") \/ Model(ds) = Some("it600Receiver")
    THEN Attr(ds, "sIT600I", "RelayStatus")
    ELSE Attr(ds, "sIASZS", "ErrorIASZSAlarmed1")

\* _refresh_binary_sensor_devices: one iteration
DecodeBinarySensor(ds) ==
    IF UniID(ds) = None THEN Skip
    ELSE LET model == Model(ds)
             is_on == IsOnAttr(ds)
         IN IF is_on = None THEN Filtered
            ELSE IF model = Some("SB600") THEN Filtered
            ELSE IF NameRaises(ds) THEN Error
            ELSE Device(
              [available |-> Available(ds),
               name |-> DeviceName(ds, "Unknown"),
               unique_id |-> Val(UniID(ds)),
               is_on |-> (is_on = Some(1)),
               device_class |->
                  IF model = Some("SW600") \/ model = Some("OS600") THEN Some("window")
                  ELSE IF model = Some("WLS600") THEN Some("moisture")
                  ELSE IF model = Some("SmokeSensor-EM") THEN Some("smoke")
                  ELSE IF model = Some("it600MINITRV") THEN Some("valve")
                  ELSE IF model = Some("it600Receiver") THEN Some("receiver")
                  ELSE None,
               data |-> Val(ds.data),
               model |-> model])

\* Mutant of HvacModeSingle: hold type 7 is not told apart
HvacModeSingleNeverOff(hold) ==
    IF hold = Some(2) THEN HVAC_MODE_HEAT ELSE HVAC_MODE_AUTO

\* hvac_mode=HVAC_MODE_OFF if th["HoldType"] == 7 else HVAC_MODE_HEAT if
\* th["HoldType"] == 2 else HVAC_MODE_AUTO
HvacModeSingle(hold) ==
    IF hold = Some(7) THEN HVAC_MODE_OFF
    ELSE IF hold = Some(2) THEN HVAC_MODE_HEAT
    ELSE HVAC_MODE_AUTO

\* Mutant of HvacActionSingle: only running state 0 is idle
HvacActionSingleZeroIdle(hold, running) ==
    IF hold = Some(7) THEN CURRENT_HVAC_OFF
    ELSE IF Val(running) = 0 THEN CURRENT_HVAC_IDLE
    ELSE CURRENT_HVAC_HEAT

\* hvac_action=CURRENT_HVAC_OFF if th["HoldType"] == 7 else CURRENT_HVAC_IDLE
\* if th["RunningState"] % 2 == 0 else CURRENT_HVAC_HEAT
HvacActionSingle(hold, running) ==
    IF hold = Some(7) THEN CURRENT_HVAC_OFF
    ELSE IF Val(running) % 2 = 0 THEN CURRENT_HVAC_IDLE
    ELSE CURRENT_HVAC_HEAT

\* _refresh_climate_devices, "if th is not None" branch (single setpoint)
ClimateSingle(ds) ==
    LET th == Val(ds.sIT600TH)
        hold == th.HoldType
    IN  \* th["..."] on a missing key: KeyError inside the try
        IF \/ th.LocalTemperature_x100 = None
           \/ th.HeatingSetpoint_x100 = None
           \/ hold = None
           \/ (hold # Some(7) /\ th.RunningState = None)
        THEN Error
        ELSE Device(
          [available |-> Available(ds),
           name |-> DeviceName(ds, "Unknown"),
           unique_id |-> Val(UniID(ds)),
           current_temperature |-> [hundredths |-> Val(th.LocalTemperature_x100)],
           target_temperature |-> [hundredths |-> Val(th.HeatingSetpoint_x100)],
           hvac_mode |-> HvacModeSingle(hold),
           hvac_action |-> HvacActionSingle(hold, th.RunningState),
           hvac_modes |-> <<HVAC_MODE_OFF, HVAC_MODE_HEAT, HVAC_MODE_AUTO>>,
           preset_mode |-> IF hold = Some(7) THEN PRESET_OFF
                           ELSE IF hold = Some(2) THEN PRESET_PERMANENT_HOLD
                           ELSE PRESET_FOLLOW_SCHEDULE,
           fan_mode |-> None,
           fan_modes |-> None,
           locked |-> None,
           data |-> Val(ds.data),
           model |-> Model(ds)])

\* _refresh_climate_devices, "elif ther ... and scomm ... and sfans ..." branch
\* hvac_mode=HVAC_MODE_HEAT if ther["SystemMode"] == 4 else HVAC_MODE_COOL if
\* ther["SystemMode"] == 3 else HVAC_MODE_AUTO
HvacModeDual(system_mode) ==
    IF system_mode = Some(4) THEN HVAC_MODE_HEAT
    ELSE IF system_mode = Some(3) THEN HVAC_MODE_COOL
    ELSE HVAC_MODE_AUTO

\* fan_mode=FAN_MODE_OFF if fan_mode == 0 else FAN_MODE_HIGH if fan_mode == 3
\* else FAN_MODE_MEDIUM if fan_mode == 2 else FAN_MODE_LOW if fan_mode == 1
\* else FAN_MODE_AUTO
FanModeOf(fan_mode) ==
    IF fan_mode = 0 THEN FAN_MODE_OFF
    ELSE IF fan_mode = 3 THEN FAN_MODE_HIGH
    ELSE IF fan_mode = 2 THEN FAN_MODE_MEDIUM
    ELSE IF fan_mode = 1 THEN FAN_MODE_LOW
    ELSE FAN_MODE_AUTO

ClimateDual(ds) ==
    LET ther == Val(ds.sTherS)
        hold == Val(ds.sComm).HoldType
        is_heating == (ther.SystemMode = Some(4))
        fan_mode == IF Val(ds.sFanS).FanMode = None THEN 5
                    ELSE Val(Val(ds.sFanS).FanMode)
        running == ther.RunningState
    IN  IF \/ ther.SystemMode = None
           \/ ther.LocalTemperature_x100 = None
           \/ (is_heating /\ ther.HeatingSetpoint_x100 = None)
           \/ (~is_heating /\ ther.CoolingSetpoint_x100 = None)
           \/ hold = None
           \/ (hold # Some(7) /\ running = None)
        THEN Error
        ELSE Device(
          [available |-> Available(ds),
           name |-> DeviceName(ds, "Unknown"),
           unique_id |-> Val(UniID(ds)),
           current_temperature |-> [hundredths |-> Val(ther.LocalTemperature_x100)],
           target_temperature |->
              IF is_heating THEN [hundredths |-> Val(ther.HeatingSetpoint_x100)]
              ELSE [hundredths |-> Val(ther.CoolingSetpoint_x100)],
           hvac_mode |-> HvacModeDual(ther.SystemMode),
           hvac_action |-> IF hold = Some(7) THEN CURRENT_HVAC_OFF
                           ELSE IF running = Some(0) THEN CURRENT_HVAC_IDLE
                           ELSE IF is_heating /\ running = Some(33) THEN CURRENT_HVAC_HEAT
                           ELSE IF is_heating THEN CURRENT_HVAC_HEAT_IDLE
                           ELSE IF running = Some(66) THEN CURRENT_HVAC_COOL
                           ELSE CURRENT_HVAC_COOL_IDLE,
           hvac_modes |-> <<HVAC_MODE_HEAT, HVAC_MODE_COOL, HVAC_MODE_AUTO>>,
           preset_mode |-> IF hold = Some(7) THEN PRESET_OFF
                           ELSE IF hold = Some(2) THEN PRESET_PERMANENT_HOLD
                           ELSE IF hold = Some(10) THEN PRESET_ECO
                           ELSE IF hold = Some(1) THEN PRESET_TEMPORARY_HOLD
                           ELSE PRESET_FOLLOW_SCHEDULE,
           fan_mode |-> Some(FanModeOf(fan_mode)),
           fan_modes |-> Some(<<FAN_MODE_AUTO, FAN_MODE_HIGH, FAN_MODE_MEDIUM,
                                FAN_MODE_LOW, FAN_MODE_OFF>>),
           locked |-> Some(Attr(ds, "sTherUIS", "LockKey") = Some(1)),
           data |-> Val(ds.data),
           model |-> Model(ds)])

\* Mutant of DecodeClimate: the dual-setpoint branch is tried first
DecodeClimateDualFirst(ds) ==
    IF UniID(ds) = None THEN Skip
    ELSE IF NameRaises(ds) THEN Error
    ELSE IF ds.sTherS # None /\ ds.sComm # None /\ ds.sFanS # None THEN ClimateDual(ds)
    ELSE IF ds.sIT600TH # None THEN ClimateSingle(ds)
    ELSE Filtered

\* _refresh_climate_devices: one iteration
DecodeClimate(ds) ==
    IF UniID(ds) = None THEN Skip
    ELSE IF NameRaises(ds) THEN Error        \* global_args is built first
    ELSE IF ds.sIT600TH # None THEN ClimateSingle(ds)
    ELSE IF ds.sTherS # None /\ ds.sComm # None /\ ds.sFanS # None THEN ClimateDual(ds)
    ELSE Filtered

\* ------------------------------------------------------------------------
\* Device kinds in the order poll_status refreshes them.
Kinds == <<"gateway", "climate", "binary_sensor", "sensor", "switch", "cover">>
DictKinds == {"climate", "binary_sensor", "sensor", "switch", "cover"}

Decode(kind, ds) ==
    CASE kind = "gateway" -> DecodeGateway(ds)
      [] kind = "climate" -> DecodeClimate(ds)
      [] kind = "binary_sensor" -> DecodeBinarySensor(ds)
      [] kind = "sensor" -> DecodeSensor(ds)
      [] kind = "switch" -> DecodeSwitch(ds)
      [] kind = "cover" -> DecodeCover(ds)

\* The filter poll_status applies to all_devices["id"] for each kind
KindFilter(kind, x) ==
    CASE kind = "gateway" -> x.sGateway # None
      [] kind = "climate" -> x.sIT600TH # None \/ x.sTherS # None
      [] kind = "binary_sensor" ->
            \/ x.sIASZS # None
            \/ /\ x.sBasicS # None
               /\ Val(x.sBasicS).ModelIdentifier # None
               /\ Val(Val(x.sBasicS).ModelIdentifier) \in {"it600MINITRV", "it600Receiver"}
      [] kind = "sensor" -> x.sTempS # None
      [] kind = "switch" -> x.sOnOffS # None
      [] kind = "cover" -> x.sLevelS # None

RECURSIVE FilterSeq(_, _)
FilterSeq(kind, seq) ==
    IF seq = <<>> THEN <<>>
    ELSE IF KindFilter(kind, Head(seq)) THEN <<Head(seq)>> \o FilterSeq(kind, Tail(seq))
    ELSE FilterSeq(kind, Tail(seq))

\* ------------------------------------------------------------------------
\* Write payloads.

\* Mutant of round_to_half: rounds down to the half degree below
round_down_to_half(hundredths) == ((2 * hundredths) \div 100) * 50

\* round_to_half(number) * 100 as an int, for a setpoint given in hundredths
\* of a degree: round(number * 2) / 2, where Python's round() takes an exact
\* half to the even integer.
round_to_half(hundredths) ==
    LET twice == 2 * hundredths
        whole == twice \div 100
        rest == twice % 100
        rounded == IF rest < 50 THEN whole
                   ELSE IF rest > 50 THEN whole + 1
                   ELSE IF whole % 2 = 0 THEN whole ELSE whole + 1
    IN  rounded * 50

IntV(n) == [type |-> "int", v |-> n]
StrV(x) == [type |-> "str", v |-> x]
Payload(cluster, attribute, value) ==
    [raises |-> "", cluster |-> cluster, attribute |-> attribute, value |-> value]
PayloadRaises(exc) == [raises |-> exc, cluster |-> "", attribute |-> "", value |-> StrV("")]

\* f"{format(position, '02x')}FFFF" as a sequence of hex digits
SetMoveToLevel(position) == <<position \div 16, position % 16, 15, 15, 15, 15>>
HexV(digits) == [type |-> "hex", v |-> digits]

\* The registry a write operation looks its device up in
WriteKind(op) ==
    CASE op \in {"set_cover_position", "open_cover", "close_cover"} -> "cover"
      [] op \in {"turn_on_switch_device", "turn_off_switch_device"} -> "switch"
      [] OTHER -> "climate"

\* The position set_cover_position is called with
CoverPosition(op, arg) ==
    CASE op = "open_cover" -> 100
      [] op = "close_cover" -> 0
      [] OTHER -> arg

\* Mutant of PositionInvalid: the bounds themselves are rejected
PositionInvalidExclusive(position) == position <= 0 \/ position >= 100

\* set_cover_position: "if position < 0 or position > 100: raise ValueError"
PositionInvalid(position) == position < 0 \/ position > 100

\* Mutant of SetpointTarget: a fan coil always gets its heating setpoint set
SetpointTargetHeating(device) ==
    IF device.model = Some("FC600")
    THEN [cluster |-> "sTherS", attribute |-> "SetHeatingSetpoint_x100"]
    ELSE [cluster |-> "sIT600TH", attribute |-> "SetHeatingSetpoint_x100"]

\* set_climate_device_temperature: the cluster and attribute of request_data
SetpointTarget(device) ==
    IF device.model = Some("FC600")
    THEN IF device.hvac_mode = HVAC_MODE_COOL
         THEN [cluster |-> "sTherS", attribute |-> "SetCoolingSetpoint_x100"]
         ELSE [cluster |-> "sTherS", attribute |-> "SetHeatingSetpoint_x100"]
    ELSE [cluster |-> "sIT600TH", attribute |-> "SetHeatingSetpoint_x100"]

\* request_data of each write operation, for the snapshot found in the registry
RequestData(op, device, arg) ==
    CASE op \in {"set_cover_position", "open_cover", "close_cover"} ->
            Payload("sLevelS", "SetMoveToLevel", HexV(SetMoveToLevel(CoverPosition(op, arg))))
      [] op = "turn_on_switch_device" -> Payload("sOnOffS", "SetOnOff", IntV(1))
      [] op = "turn_off_switch_device" -> Payload("sOnOffS", "SetOnOff", IntV(0))
      [] op = "set_climate_device_preset" ->
            IF device.model = Some("FC600")
            THEN Payload("sComm", "SetHoldType",
                         IntV(IF arg = PRESET_OFF THEN 7
                              ELSE IF arg = PRESET_ECO THEN 10
                              ELSE IF arg = PRESET_PERMANENT_HOLD THEN 2
                              ELSE IF arg = PRESET_TEMPORARY_HOLD THEN 1
                              ELSE 0))
            ELSE Payload("sIT600TH", "SetHoldType",
                         IntV(IF arg = PRESET_OFF THEN 7
                              ELSE IF arg = PRESET_PERMANENT_HOLD THEN 2
                              ELSE 0))
      [] op = "set_climate_device_mode" ->
            IF device.model = Some("FC600")
            THEN Payload("sTherS", "SetSystemMode",
                         IF arg = HVAC_MODE_HEAT THEN IntV(4)
                         ELSE IF arg = HVAC_MODE_COOL THEN IntV(3)
                         ELSE StrV(HVAC_MODE_AUTO))
            ELSE Payload("sIT600TH", "SetHoldType",
                         IntV(IF arg = HVAC_MODE_OFF THEN 7 ELSE 0))
      [] op = "set_climate_device_fan_mode" ->
            \* "2 if mode == FAN_MODE_MID": the name FAN_MODE_MID is not defined
            \* in gateway.py, so reaching that comparison raises NameError
            IF arg = FAN_MODE_AUTO THEN Payload("sFanS", "FanMode", IntV(5))
            ELSE IF arg = FAN_MODE_HIGH THEN Payload("sFanS", "FanMode", IntV(3))
            ELSE PayloadRaises("NameError")
      [] op = "set_climate_device_locked" ->
            Payload("sTherUIS", "LockKey", IntV(IF arg THEN 1 ELSE 0))
      [] op = "set_climate_device_temperature" ->
            Payload(SetpointTarget(device).cluster, SetpointTarget(device).attribute,
                    IntV(round_to_half(arg)))

WriteOps ==
    {"set_cover_position", "open_cover", "close_cover", "turn_on_switch_device",
     "turn_off_switch_device", "set_climate_device_preset", "set_climate_device_mode",
     "set_climate_device_fan_mode", "set_climate_device_locked",
     "set_climate_device_temperature"}

\* ------------------------------------------------------------------------
\* State.
Tasks == {"connect", "poll", "write", "poll2"}

VARIABLES
    session,          \* _session: "none", "supplied" (by the caller) or "created"
    close_session,    \* _close_session
    lockOwner,        \* _lock: the task inside "async with self._lock", if any
    waiters,          \* _lock: tasks suspended in acquire(), in arrival order
    pc,               \* per task: where it is suspended
    op,               \* per task: which call awaits the current request
    request,          \* per task: the request of _make_encrypted_request, if any
    exchange,         \* per task: how the HTTP exchange in progress ended
    error,            \* per task: what the last _make_encrypted_request raised
    message,          \* per task: the message of that exception
    sent,             \* per task: POSTs sent by the current operation
    result,           \* per task: outcome of the current operation
    probe,            \* connect: state of the plain HTTP probe
    gateway_device,   \* _gateway_device
    devices,          \* _climate_devices, ..., _cover_devices, by kind
    callbacks,        \* _climate_update_callbacks, ..., by kind
    send_callback,    \* poll_status: its argument
    all_devices,      \* poll_status: all_devices["id"]
    kindIdx,          \* poll_status: index in Kinds of the refresh in progress
    status,           \* _refresh_*: status["id"]
    recIdx,           \* _refresh_*: index in status of the next record
    local_device,     \* _refresh_gateway_device: local_device
    local_devices,    \* _refresh_*: local_devices
    cbIdx,            \* _send_*_update_callback: index of the next subscriber
    current,          \* _refresh_*: unique id of the device being notified
    before,           \* history: the registries when the current poll started
    threw,            \* history: kinds whose refresh raised in the current poll
    swapped,          \* history: kinds whose registry the current poll replaced
    calls,            \* history: subscriber invocations of the current poll
    polls,            \* history: number of poll_status calls started
    writes,           \* history: number of write operations started
    connect_devices,  \* history: all_devices["id"] received by connect(), if any
    wcall,            \* history: the last write call, and whether its id was known
    posts,            \* history: the request bodies the current poll has POSTed
    faults,           \* history: number of HTTP exchanges that failed
    created,          \* history: number of aiohttp.ClientSession() constructed
    closed,           \* the sessions that are closed
    close_calls,      \* history: what _session was at the close() calls so far
    euid,             \* IT600Encryptor: the EUID X the instances are built from
    plain,            \* IT600Encryptor: the plaintext given to encrypt()
    cipher,           \* IT600Encryptor: per instance, the key of self.cipher, if built
    encrypted,        \* IT600Encryptor: per instance, what its encrypt() calls returned
    decrypted,        \* IT600Encryptor: per instance, what its decrypt() returned or raised
    all_devices2,     \* a second poll_status running beside the first: all_devices["id"]
    kindIdx2,         \* that poll_status: index in Kinds of its refresh in progress
    held,             \* IT600GatewaySingleton.__instance__: the gateway held, if any
    holder,           \* IT600GatewaySingleton.__lock__: the thread inside "with", if any
    tpc,              \* per thread: where it is in get_instance
    targs,            \* per thread: the arguments of its get_instance call
    fresh,            \* per thread: the IT600Gateway it has constructed, not yet stored
    tret,             \* per thread: what its last get_instance call returned
    made              \* history: the arguments of the IT600Gateway objects constructed

transport == <<session, close_session, created, lockOwner, waiters, request, exchange, error,
              message, sent>>
pollvars == <<send_callback, all_devices, kindIdx, status, recIdx, local_device,
              local_devices, cbIdx, current, before, threw, swapped, calls, polls>>
registries == <<gateway_device, devices>>
history == <<connect_devices, wcall, posts>>
encryptor == <<euid, plain, cipher, encrypted, decrypted>>
closing == <<closed, close_calls>>
second == <<all_devices2, kindIdx2>>
singleton == <<held, holder, tpc, targs, fresh, tret, made>>
gatewayvars == <<transport, pc, op, result, probe, registries, callbacks, pollvars, writes, faults,
                 history, closing, second>>
vars == <<gatewayvars, encryptor, singleton>>

\* Bounds of the exploration
MaxPolls == 2
MaxWrites == 1
MaxCallbacks == 2
MaxFaults == 2

Subscribers == {"cb1", "cb2"}

Idle == [state |-> "none", value |-> ""]
Running == [state |-> "running", value |-> ""]
Returned(v) == [state |-> "returned", value |-> v]
Raised(exc) == [state |-> "raised", value |-> exc]

\* __init__
\* No exception, or an exception raised without a message
NoMessage == [text |-> "", command |-> None, content |-> None]

InitGateway ==
    /\ session \in {"none", "supplied"}
    /\ close_session = FALSE
    /\ created = 0
    /\ closed = {}
    /\ close_calls = {}
    /\ lockOwner = None
    /\ waiters = <<>>
    /\ pc = [t \in Tasks |-> "idle"]
    /\ op = [t \in Tasks |-> ""]
    /\ request = [t \in Tasks |-> None]
    /\ exchange = [t \in Tasks |-> ""]
    /\ error = [t \in Tasks |-> ""]
    /\ message = [t \in Tasks |-> NoMessage]
    /\ sent = [t \in Tasks |-> 0]
    /\ result = [t \in Tasks |-> Idle]
    /\ probe = "none"
    /\ gateway_device = None
    /\ devices = [k \in DictKinds |-> EmptyDict]
    /\ callbacks = [k \in DictKinds |-> <<>>]
    /\ send_callback = FALSE
    /\ all_devices = <<>>
    /\ kindIdx = 0
    /\ status = <<>>
    /\ recIdx = 0
    /\ local_device = None
    /\ local_devices = EmptyDict
    /\ cbIdx = 0
    /\ current = None
    /\ before = [k \in DictKinds |-> EmptyDict]
    /\ threw = {}
    /\ swapped = {}
    /\ calls = <<>>
    /\ polls = 0
    /\ writes = 0
    /\ faults = 0
    /\ connect_devices = None
    /\ posts = <<>>
    /\ wcall = None
    /\ all_devices2 = <<>>
    /\ kindIdx2 = 0

\* The threads that call IT600GatewaySingleton.get_instance
Threads == {"th1", "th2", "th3"}

\* gateway_singleton.py: "__lock__ = threading.Lock()", "__instance__ = None"
InitSingleton ==
    /\ held = None
    /\ holder = None
    /\ tpc = [t \in Threads |-> "idle"]
    /\ targs = [t \in Threads |-> None]
    /\ fresh = [t \in Threads |-> None]
    /\ tret = [t \in Threads |-> None]
    /\ made = <<>>

\* The instances of IT600Encryptor: built from EUID X, X.lower(), X.upper()
Instances == {"X", "lower", "upper"}

\* No encryptor has been built
InitEncryptor ==
    /\ cipher = [i \in Instances |-> None]
    /\ encrypted = [i \in Instances |-> <<>>]
    /\ decrypted = [i \in Instances |-> None]

Init ==
    /\ InitGateway
    /\ InitSingleton
    /\ InitEncryptor
    /\ euid = <<>>
    /\ plain = <<>>

\* ------------------------------------------------------------------------
\* Transport: _make_encrypted_request.

\* How an HTTP exchange can end
Exchanges ==
    {"success",        \* a response whose status is "success"
     "timeout",        \* async_timeout expired: asyncio.TimeoutError
     "refused",        \* no TCP connection: ClientConnectorError
     "disconnected",   \* another aiohttp client error
     "garbled",        \* decrypt(): invalid padding, ValueError
     "notjson",        \* json.loads(): JSONDecodeError
     "nostatus",       \* response_json["status"]: KeyError
     "failed"}         \* status is not "success": IT600CommandError is raised

\* The exchange of a request made after close(): post() on a closed session
\* raises RuntimeError
SessionClosed == "closed"

\* The exchange of a request whose task is cancelled by its caller while it
\* awaits the response: the await raises asyncio.CancelledError, which since
\* Python 3.8 is a BaseException that no except clause of the request catches
Cancelled == "cancelled"

\* The first argument of _make_encrypted_request: "read" or "write"
Command(call) == IF call \in WriteOps THEN "write" ELSE "read"

\* Exception messages: the fixed text, and the command and request body the
\* text embeds, if any
Rejected(command, body) ==
    [text |-> "iT600 gateway rejected command with content",
     command |-> Some(command), content |-> Some(body)]
TimeoutMessage ==
    [text |-> "Error occurred while communicating with iT600 gateway: timeout",
     command |-> None, content |-> None]
AddressMessage ==
    [text |-> "Error occurred while communicating with iT600 gateway: check if you have specified host/IP address correctly",
     command |-> None, content |-> None]
UnknownMessage ==
    [text |-> "Unknown error occurred while communicating with iT600 gateway",
     command |-> None, content |-> None]

\* What the try body of _make_encrypted_request raises for an exchange
TryRaises(how, command, body) ==
    CASE how = "success"      -> [type |-> "", message |-> NoMessage]
      [] how = "timeout"      -> [type |-> "TimeoutError", message |-> NoMessage]
      [] how = "refused"      -> [type |-> "ClientConnectorError", message |-> NoMessage]
      [] how = "disconnected" -> [type |-> "ServerDisconnectedError", message |-> NoMessage]
      [] how = "garbled"      -> [type |-> "ValueError", message |-> NoMessage]
      [] how = "notjson"      -> [type |-> "JSONDecodeError", message |-> NoMessage]
      [] how = "nostatus"     -> [type |-> "KeyError", message |-> NoMessage]
      [] how = "failed"       -> [type |-> "IT600CommandError",
                                  message |-> Rejected(command, body)]
      [] how = SessionClosed  -> [type |-> "RuntimeError", message |-> NoMessage]
      [] how = Cancelled      -> [type |-> "CancelledError", message |-> NoMessage]

\* The message of the exception the except clauses raise for an exception of
\* the try body; "except Exception" also catches IT600CommandError
ExceptClause(exc) ==
    CASE exc.type = ""                     -> NoMessage
      [] exc.type = "TimeoutError"         -> TimeoutMessage
      [] exc.type = "ClientConnectorError" -> AddressMessage
      [] exc.type = "CancelledError"       -> NoMessage
      [] OTHER                             -> UnknownMessage

\* Mutant of Classify: a broad "except Exception" ahead of the specific
\* clauses turns every failure into a connection error
ClassifyAllConnection(how) ==
    IF how = "success" THEN "" ELSE "IT600ConnectionError"

\* The except clauses of _make_encrypted_request: what the caller sees
Classify(how) ==
    CASE how = "success" -> ""
      [] how = "timeout" -> "IT600ConnectionError"
      [] how = "refused" -> "IT600ConnectionError"
      [] how = Cancelled -> "CancelledError"
      [] OTHER -> "IT600CommandError"

\* Mutant of LockFree: acquire() never waits
LockAlwaysFree == TRUE

\* Whether a task may enter "async with self._lock" without suspending
LockFree == lockOwner = None /\ waiters = <<>>

\* Mutant of EnsureSession: a session is created whenever the gateway did not
\* get one from its caller
EnsureSessionAgain ==
    IF session # "supplied"
    THEN session' = "created" /\ close_session' = TRUE /\ created' = created + 1
    ELSE UNCHANGED <<session, close_session, created>>

\* "if self._session is None: self._session = aiohttp.ClientSession()"
EnsureSession ==
    IF session = "none"
    THEN session' = "created" /\ close_session' = TRUE /\ created' = created + 1
    ELSE UNCHANGED <<session, close_session, created>>

\* Entry of _make_encrypted_request(command, request_body) by task t: take
\* the lock and send the POST, or suspend in acquire().
Enter(t, call, body) ==
    /\ op' = [op EXCEPT ![t] = call]
    /\ request' = [request EXCEPT ![t] = Some(body)]
    /\ error' = [error EXCEPT ![t] = ""]
    /\ message' = [message EXCEPT ![t] = NoMessage]
    /\ UNCHANGED exchange
    /\ IF LockFree
       THEN /\ lockOwner' = Some(t)
            /\ pc' = [pc EXCEPT ![t] = "http"]
            /\ UNCHANGED waiters
       ELSE /\ waiters' = Append(waiters, t)
            /\ pc' = [pc EXCEPT ![t] = "acquire"]
            /\ UNCHANGED lockOwner

Send(t, call, body) ==
    /\ Enter(t, call, body)
    /\ IF LockFree THEN EnsureSession ELSE UNCHANGED <<session, close_session, created>>

\* A released lock wakes its first waiter, which then sends its POST
Acquire(t) ==
    /\ pc[t] = "acquire"
    /\ UNCHANGED <<encryptor, closing, second, singleton>>
    /\ lockOwner = None
    /\ waiters # <<>> /\ Head(waiters) = t
    /\ lockOwner' = Some(t)
    /\ waiters' = Tail(waiters)
    /\ pc' = [pc EXCEPT ![t] = "http"]
    /\ sent' = [sent EXCEPT ![t] = @ + 1]
    /\ posts' = IF t = "poll" THEN Append(posts, Val(request[t])) ELSE posts
    /\ EnsureSession
    /\ UNCHANGED <<op, request, exchange, error, message, result, probe, registries, callbacks,
                   pollvars, writes, faults, connect_devices, wcall>>

\* The exchange of task t ends: a response arrives, or the await raises
HttpDone(t, how) ==
    /\ pc[t] = "http"
    /\ UNCHANGED <<encryptor, closing, second, singleton>>
    /\ how # "success" => faults < MaxFaults
    /\ how = SessionClosed <=> session \in closed
    /\ faults' = IF how = "success" THEN faults ELSE faults + 1
    /\ pc' = [pc EXCEPT ![t] = "respond"]
    /\ exchange' = [exchange EXCEPT ![t] = how]
    /\ UNCHANGED <<session, close_session, created, lockOwner, waiters, request, error, message, sent,
                   op, result, probe, registries, callbacks, pollvars, writes, history>>

\* Mutant of Release: a refresh that announces its devices to subscribers
\* takes the lock for its request and still holds it in its loop over the records
ReleaseAfterLoop(t) ==
    /\ lockOwner' = IF /\ op[t] = "byid" /\ send_callback
                       /\ Kinds[kindIdx] \in DictKinds
                       /\ callbacks[Kinds[kindIdx]] # <<>>
                    THEN lockOwner ELSE None
    /\ request' = [request EXCEPT ![t] = None]
    /\ exchange' = [exchange EXCEPT ![t] = ""]
    /\ error' = [error EXCEPT ![t] = Classify(exchange[t])]
    /\ message' = [message EXCEPT ![t] =
                      ExceptClause(TryRaises(exchange[t], Command(op[t]), Val(request[t])))]
    /\ UNCHANGED <<session, close_session, created, waiters>>

\* Mutant of Release: the lock is released by hand after the try block, which
\* a raised exception skips
ReleaseUnlessRaised(t) ==
    /\ lockOwner' = IF Classify(exchange[t]) = "" THEN None ELSE lockOwner
    /\ request' = [request EXCEPT ![t] = None]
    /\ exchange' = [exchange EXCEPT ![t] = ""]
    /\ error' = [error EXCEPT ![t] = Classify(exchange[t])]
    /\ message' = [message EXCEPT ![t] =
                      ExceptClause(TryRaises(exchange[t], Command(op[t]), Val(request[t])))]
    /\ UNCHANGED <<session, close_session, created, waiters>>

\* Exit of "async with self._lock" with the value returned or exception raised
Release(t) ==
    /\ lockOwner' = None
    /\ request' = [request EXCEPT ![t] = None]
    /\ exchange' = [exchange EXCEPT ![t] = ""]
    /\ error' = [error EXCEPT ![t] = Classify(exchange[t])]
    /\ message' = [message EXCEPT ![t] =
                      ExceptClause(TryRaises(exchange[t], Command(op[t]), Val(request[t])))]
    /\ UNCHANGED <<session, close_session, created, waiters>>

\* ------------------------------------------------------------------------
\* Request bodies
ReadAll == [requestAttr |-> "readall", id |-> <<>>]
\* Mutant of Handles: only the first record's handle is sent
HandlesFirst(seq) ==
    IF seq = <<>> THEN <<>> ELSE <<[data |-> Val(Head(seq).data)]>>

RECURSIVE Handles(_)
Handles(seq) ==
    IF seq = <<>> THEN <<>>
    ELSE <<[data |-> Val(Head(seq).data)]>> \o Handles(Tail(seq))
ReadById(devs) == [requestAttr |-> "deviceid", id |-> Handles(devs)]
Write(device, payload) ==
    [requestAttr |-> "write",
     id |-> <<[data |-> device.data, cluster |-> payload.cluster,
               attribute |-> payload.attribute, value |-> payload.value]>>]

\* POSTs sent by the operation of task t so far, this one included
Posted(t) == IF LockFree THEN sent[t] + 1 ELSE sent[t]

\* ------------------------------------------------------------------------
\* connect()

\* Mutant of HasMac: an empty MAC counts as a gateway record
HasMacKey(x) == Attr(x, "sGateway", "NetworkLANMAC") # None

\* len(x.get("sGateway", {}).get("NetworkLANMAC", "")) > 0
HasMac(x) ==
    /\ Attr(x, "sGateway", "NetworkLANMAC") # None
    /\ Val(Attr(x, "sGateway", "NetworkLANMAC")) # ""

\* next(filter(lambda x: ..., all_devices["id"]), None)
RECURSIVE FirstGateway(_)
FirstGateway(seq) ==
    IF seq = <<>> THEN None
    ELSE IF HasMac(Head(seq)) THEN Some(Head(seq))
    ELSE FirstGateway(Tail(seq))

ConnectStart ==
    /\ pc["connect"] = "idle"
    /\ UNCHANGED <<encryptor, closing, second, singleton>>
    /\ result["connect"].state = "none"
    /\ EnsureSession
    /\ Enter("connect", "connect", ReadAll)
    /\ sent' = [sent EXCEPT !["connect"] = IF LockFree THEN 1 ELSE 0]
    /\ result' = [result EXCEPT !["connect"] = Running]
    /\ probe' = "none"
    /\ UNCHANGED <<registries, callbacks, pollvars, writes, faults, history>>

\* The inventory request of connect() returns or raises
ConnectResponse(inventory) ==
    /\ pc["connect"] = "respond"
    /\ UNCHANGED <<encryptor, closing, second, singleton>>
    /\ op["connect"] = "connect"
    /\ Release("connect")
    /\ UNCHANGED <<sent, op, registries, callbacks, pollvars, writes, faults, wcall, posts>>
    /\ connect_devices' = IF Classify(exchange["connect"]) = "" THEN Some(inventory)
                          ELSE connect_devices
    /\ LET raised == Classify(exchange["connect"])
           gateway == FirstGateway(inventory)
       IN  CASE raised = "" ->
                  /\ pc' = [pc EXCEPT !["connect"] = "idle"]
                  /\ probe' = probe
                  /\ result' = [result EXCEPT !["connect"] =
                        IF gateway = None THEN Raised("IT600CommandError")
                        ELSE Returned(Val(Val(Val(gateway).sGateway).NetworkLANMAC))]
             [] raised = "IT600ConnectionError" ->
                  \* "except IT600ConnectionError": self._session.get(...)
                  /\ pc' = [pc EXCEPT !["connect"] = "probe"]
                  /\ probe' = "inflight"
                  /\ UNCHANGED result
             [] OTHER ->
                  /\ pc' = [pc EXCEPT !["connect"] = "idle"]
                  /\ probe' = probe
                  /\ result' = [result EXCEPT !["connect"] = Raised(raised)]

\* Mutant of ProbeVerdict: the probe's answer is not looked at
ProbeVerdictBlind(answered) == "IT600ConnectionError"

\* What connect() raises once the plain GET returned (answered) or raised
ProbeVerdict(answered) ==
    IF answered THEN "IT600AuthenticationError" ELSE "IT600ConnectionError"

\* The plain GET of connect() returns (answered) or raises
ProbeDone(answered) ==
    /\ pc["connect"] = "probe"
    /\ UNCHANGED <<encryptor, closing, second, singleton>>
    /\ session \in closed => ~answered     \* get() on a closed session raises
    /\ pc' = [pc EXCEPT !["connect"] = "idle"]
    /\ probe' = IF answered THEN "answered" ELSE "failed"
    /\ result' = [result EXCEPT !["connect"] = Raised(ProbeVerdict(answered))]
    /\ UNCHANGED <<transport, op, registries, callbacks, pollvars, writes, faults, history>>

\* ------------------------------------------------------------------------
\* poll_status(send_callback)

Kind == Kinds[kindIdx]

\* The refresh of the current kind is over (returned or raised into the
\* "except BaseException" of poll_status): go on with the next kind, or return.
Advance ==
    IF kindIdx = Len(Kinds)
    THEN /\ pc' = [pc EXCEPT !["poll"] = "idle"]
         /\ result' = [result EXCEPT !["poll"] = Returned("")]
         /\ UNCHANGED kindIdx
    ELSE /\ pc' = [pc EXCEPT !["poll"] = "kind"]
         /\ kindIdx' = kindIdx + 1
         /\ UNCHANGED result

\* Mutant of Caught: the exception of a refresh leaves poll_status
Uncaught ==
    /\ pc' = [pc EXCEPT !["poll"] = "idle"]
    /\ result' = [result EXCEPT !["poll"] = Raised("Exception")]
    /\ UNCHANGED kindIdx

\* "except BaseException as e: _LOGGER.error(...)" around each refresh
Caught == Advance

PollStart(notify) ==
    /\ pc["poll"] = "idle"
    /\ UNCHANGED <<encryptor, closing, second, singleton>>
    /\ polls < MaxPolls
    /\ polls' = polls + 1
    /\ send_callback' = notify
    /\ result' = [result EXCEPT !["poll"] = Running]
    /\ Send("poll", "readall", ReadAll)
    /\ sent' = [sent EXCEPT !["poll"] = IF LockFree THEN 1 ELSE 0]
    /\ before' = devices
    /\ threw' = {}
    /\ swapped' = {}
    /\ calls' = <<>>
    /\ posts' = IF LockFree THEN <<ReadAll>> ELSE <<>>
    /\ UNCHANGED <<probe, registries, callbacks, all_devices, kindIdx, status, recIdx,
                   local_device, local_devices, cbIdx, current, writes, faults,
                   connect_devices, wcall>>

\* Mutant of Propagate: the inventory read is inside a try like the
\* refreshes, its failure is logged and the refreshes go on with the
\* inventory of the previous poll
PropagateLogged ==
    /\ pc' = [pc EXCEPT !["poll"] = "kind"]
    /\ kindIdx' = 1
    /\ UNCHANGED <<all_devices, result>>

\* "all_devices = await self._make_encrypted_request(...)" is outside every
\* try of poll_status: what the request raises leaves poll_status
Propagate ==
    /\ pc' = [pc EXCEPT !["poll"] = "idle"]
    /\ result' = [result EXCEPT !["poll"] = Raised(Classify(exchange["poll"]))]
    /\ UNCHANGED <<all_devices, kindIdx>>

\* The inventory request of poll_status returns or raises
PollInventory(inventory) ==
    /\ pc["poll"] = "respond"
    /\ UNCHANGED <<encryptor, closing, second, singleton>>
    /\ op["poll"] = "readall"
    /\ Release("poll")
    /\ IF Classify(exchange["poll"]) = ""
       THEN /\ all_devices' = inventory
            /\ kindIdx' = 1
            /\ pc' = [pc EXCEPT !["poll"] = "kind"]
            /\ UNCHANGED result
       ELSE Propagate
    /\ UNCHANGED <<sent, op, probe, registries, callbacks, send_callback, status, recIdx,
                   local_device, local_devices, cbIdx, current, before, threw, swapped,
                   calls, polls, writes, faults, history>>

\* Whether the refresh of a kind assigns its registry when no record of the
\* inventory matched the kind ("if devices:" is false)
SwapsWhenEmpty(kind) == kind = "climate"

\* _refresh_<kind>_devices(devices, send_callback), up to its request
RefreshStart ==
    /\ pc["poll"] = "kind"
    /\ UNCHANGED <<encryptor, closing, second, singleton>>
    /\ local_devices' = EmptyDict
    /\ local_device' = None
    /\ LET devs == FilterSeq(Kind, all_devices)
       IN  IF devs = <<>>
           THEN /\ IF SwapsWhenEmpty(Kind)
                   THEN /\ devices' = [devices EXCEPT ![Kind] = EmptyDict]
                        /\ swapped' = swapped \cup {Kind}
                   ELSE UNCHANGED <<devices, swapped>>
                /\ Advance
                /\ UNCHANGED <<transport, op, threw, posts>>
           ELSE IF \E i \in 1..Len(devs) : devs[i].data = None
           THEN \* device["data"]: KeyError while the request body is built
                /\ threw' = threw \cup {Kind}
                /\ Caught
                /\ UNCHANGED <<transport, op, devices, swapped, posts>>
           ELSE /\ Send("poll", "byid", ReadById(devs))
                /\ sent' = [sent EXCEPT !["poll"] = Posted("poll")]
                /\ posts' = IF LockFree THEN Append(posts, ReadById(devs)) ELSE posts
                /\ UNCHANGED <<kindIdx, result, devices, threw, swapped>>
    /\ UNCHANGED <<probe, gateway_device, callbacks, send_callback, all_devices, status,
                   recIdx, cbIdx, current, before, calls, polls, writes, faults,
                   connect_devices, wcall>>

\* The records the gateway returns for the handles of a read-by-id request
ByIdResponse(kind, inventory) == FilterSeq(kind, inventory)

\* The read-by-id request of a refresh returns or raises
RefreshResponse ==
    /\ pc["poll"] = "respond"
    /\ UNCHANGED <<encryptor, closing, second, singleton>>
    /\ op["poll"] = "byid"
    /\ Release("poll")
    /\ IF Classify(exchange["poll"]) = ""
       THEN /\ status' = ByIdResponse(Kind, all_devices)
            /\ recIdx' = 1
            /\ pc' = [pc EXCEPT !["poll"] = "loop"]
            /\ UNCHANGED <<kindIdx, result, threw>>
       ELSE /\ threw' = threw \cup {Kind}
            /\ Caught
            /\ UNCHANGED <<status, recIdx>>
    /\ UNCHANGED <<sent, op, probe, registries, callbacks, send_callback, all_devices,
                   local_device, local_devices, cbIdx, current, before, swapped, calls,
                   polls, writes, faults, history>>

\* Mutant of Inject: the live registry is left alone until the swap
InjectNothing(registry, device) == registry

\* "self._<kind>_devices[device.unique_id] = device"
Inject(registry, device) == DictSet(registry, device.unique_id, device)

\* Mutant of Injects: every refresh writes each decoded device into the live
\* registry, whatever send_callback is
InjectsAlways(kind) == kind # "gateway"

\* Whether a decoded device is put into the live registry and announced
Injects(kind) == send_callback /\ kind # "gateway"

\* One iteration of "for device_status in status['id']", up to the first
\* subscriber call
RefreshRecord ==
    /\ pc["poll"] = "loop"
    /\ UNCHANGED <<encryptor, closing, second, singleton>>
    /\ recIdx <= Len(status)
    /\ LET r == Decode(Kind, status[recIdx])
       IN  CASE r.tag \in {"skip", "filtered", "error"} ->
                  /\ recIdx' = recIdx + 1
                  /\ UNCHANGED <<pc, kindIdx, result, registries, local_device,
                                 local_devices, cbIdx, current, threw>>
             [] r.tag = "raise" ->
                  /\ threw' = threw \cup {Kind}
                  /\ Caught
                  /\ UNCHANGED <<recIdx, registries, local_device, local_devices, cbIdx,
                                 current>>
             [] r.tag = "device" /\ Kind = "gateway" ->
                  /\ local_device' = Some(r.device)
                  /\ recIdx' = recIdx + 1
                  /\ UNCHANGED <<pc, kindIdx, result, registries, local_devices, cbIdx,
                                 current, threw>>
             [] r.tag = "device" /\ Kind # "gateway" ->
                  /\ local_devices' = DictSet(local_devices, r.device.unique_id, r.device)
                  /\ devices' = IF Injects(Kind)
                                THEN [devices EXCEPT ![Kind] = Inject(@, r.device)]
                                ELSE devices
                  /\ IF Injects(Kind) /\ callbacks[Kind] # <<>>
                     THEN /\ pc' = [pc EXCEPT !["poll"] = "notify"]
                          /\ cbIdx' = 1
                          /\ current' = Some(r.device.unique_id)
                          /\ UNCHANGED recIdx
                     ELSE \* no notification, or "Callback for ... has not been set"
                          /\ recIdx' = recIdx + 1
                          /\ UNCHANGED <<pc, cbIdx, current>>
                  /\ UNCHANGED <<kindIdx, result, gateway_device, local_device, threw>>
    /\ UNCHANGED <<transport, op, probe, callbacks, send_callback, all_devices, status,
                   before, swapped, calls, polls, writes, faults, history>>

\* Mutant of Subscriber: the list is walked from its end
SubscriberReversed(kind, i) == callbacks[kind][Len(callbacks[kind]) + 1 - i]

\* "for update_callback in self._<kind>_update_callbacks": the i-th one
Subscriber(kind, i) == callbacks[kind][i]

\* _send_<kind>_update_callback: "await update_callback(device_id=device_id)"
\* for one subscriber, which returns or raises
Notify(raises) ==
    /\ pc["poll"] = "notify"
    /\ UNCHANGED <<encryptor, closing, second, singleton>>
    /\ calls' = Append(calls, [kind |-> Kind, subscriber |-> Subscriber(Kind, cbIdx),
                               device_id |-> Val(current), raised |-> raises])
    /\ IF raises \/ cbIdx = Len(callbacks[Kind])
       THEN \* the loop over records goes on (a raise is caught and logged)
            /\ pc' = [pc EXCEPT !["poll"] = "loop"]
            /\ recIdx' = recIdx + 1
            /\ current' = None
            /\ cbIdx' = 0
       ELSE /\ cbIdx' = cbIdx + 1
            /\ UNCHANGED <<pc, recIdx, current>>
    /\ UNCHANGED <<transport, op, result, probe, registries, callbacks, send_callback,
                   all_devices, kindIdx, status, local_device, local_devices, before,
                   threw, swapped, polls, writes, faults, history>>

\* End of the loop: "self._<kind>_devices = local_devices"
RefreshSwap ==
    /\ pc["poll"] = "loop"
    /\ UNCHANGED <<encryptor, closing, second, singleton>>
    /\ recIdx > Len(status)
    /\ IF Kind = "gateway"
       THEN gateway_device' = local_device /\ UNCHANGED devices
       ELSE devices' = [devices EXCEPT ![Kind] = local_devices] /\ UNCHANGED gateway_device
    /\ swapped' = swapped \cup {Kind}
    /\ Advance
    /\ UNCHANGED <<transport, op, probe, callbacks, send_callback, all_devices, status,
                   recIdx, local_device, local_devices, cbIdx, current, before, threw,
                   calls, polls, writes, faults, history>>

\* add_<kind>_update_callback(method)
RECURSIVE Registered(_)
Registered(ks) ==
    IF ks = {} THEN 0
    ELSE LET k == CHOOSE x \in ks : TRUE IN Len(callbacks[k]) + Registered(ks \ {k})

AddCallback(kind, method) ==
    /\ Registered(DictKinds) < MaxCallbacks
    /\ UNCHANGED <<encryptor, closing, second, singleton>>
    /\ callbacks' = [callbacks EXCEPT ![kind] = Append(@, method)]
    /\ UNCHANGED <<transport, pc, op, result, probe, registries, pollvars, writes, faults, history>>

\* ------------------------------------------------------------------------
\* Write operations: set_cover_position, open_cover, close_cover,
\* turn_on/off_switch_device, set_climate_device_preset/mode/fan_mode/
\* locked/temperature.

\* Mutant of GetDevice: the id is looked up in every registry
GetDeviceAnyKind(kind, device_id) ==
    IF \E k \in DictKinds : device_id \in DOMAIN devices[k]
    THEN Some(devices[CHOOSE k \in DictKinds : device_id \in DOMAIN devices[k]][device_id])
    ELSE None

\* get_<kind>_device(device_id): self._<kind>_devices.get(device_id)
GetDevice(kind, device_id) ==
    IF device_id \in DOMAIN devices[kind] THEN Some(devices[kind][device_id]) ELSE None

\* Whether the operation validates its argument before the lookup
Validates(name) == name \in {"set_cover_position", "open_cover", "close_cover"}

WriteStart(name, device_id, arg) ==
    /\ pc["write"] = "idle"
    /\ UNCHANGED <<encryptor, closing, second, singleton>>
    /\ writes < MaxWrites
    /\ writes' = writes + 1
    /\ wcall' = Some([name |-> name, device_id |-> device_id, arg |-> arg,
                      known |-> device_id \in DOMAIN devices[WriteKind(name)]])
    /\ UNCHANGED <<connect_devices, posts>>
    /\ LET device == GetDevice(WriteKind(name), device_id)
           payload == RequestData(name, Val(device), arg)
           finish(res) ==
               /\ result' = [result EXCEPT !["write"] = res]
               /\ sent' = [sent EXCEPT !["write"] = 0]
               /\ op' = [op EXCEPT !["write"] = name]
               /\ UNCHANGED <<session, close_session, created, lockOwner, waiters, request,
                              exchange, error, message, pc>>
       IN  IF Validates(name) /\ PositionInvalid(CoverPosition(name, arg))
           THEN finish(Raised("ValueError"))
           ELSE IF device = None
           THEN finish(Returned(""))        \* _LOGGER.error(...); return
           ELSE IF payload.raises # ""
           THEN finish(Raised(payload.raises))
           ELSE /\ Send("write", name, Write(Val(device), payload))
                /\ sent' = [sent EXCEPT !["write"] = IF LockFree THEN 1 ELSE 0]
                /\ result' = [result EXCEPT !["write"] = Running]
    /\ UNCHANGED <<probe, registries, callbacks, pollvars, faults>>

\* Mutant of WriteReturns: a switch operation that succeeded puts the state it
\* wrote into the snapshot of the registry
WriteReturnsUpdated ==
    LET call == Val(wcall)
    IN  IF /\ Classify(exchange["write"]) = ""
           /\ WriteKind(call.name) = "switch"
           /\ call.device_id \in DOMAIN devices["switch"]
        THEN /\ devices' = [devices EXCEPT !["switch"][call.device_id].is_on =
                                              (call.name = "turn_on_switch_device")]
             /\ UNCHANGED gateway_device
        ELSE UNCHANGED registries

\* The request is the last statement of every write operation: nothing is
\* done with its response, and no registry is assigned
WriteReturns == UNCHANGED registries

\* The write request returns or raises
WriteResponse ==
    /\ pc["write"] = "respond"
    /\ UNCHANGED <<encryptor, closing, second, singleton>>
    /\ op["write"] \in WriteOps
    /\ Release("write")
    /\ pc' = [pc EXCEPT !["write"] = "idle"]
    /\ result' = [result EXCEPT !["write"] =
          IF Classify(exchange["write"]) = "" THEN Returned("")
          ELSE Raised(Classify(exchange["write"]))]
    /\ WriteReturns
    /\ UNCHANGED <<sent, op, probe, callbacks, pollvars, writes, faults, history>>

\* ------------------------------------------------------------------------
\* Mutant of Close: whatever session the gateway holds is closed
CloseAny ==
    /\ close_calls' = close_calls \cup {session}
    /\ closed' = IF session # "none" THEN closed \cup {session} ELSE closed
    /\ UNCHANGED <<transport, pc, op, result, probe, registries, callbacks, pollvars,
                   writes, faults, history, encryptor, second, singleton>>

\* close(): "if self._session and self._close_session: await self._session.close()"
Close ==
    /\ close_calls' = close_calls \cup {session}
    /\ closed' = IF session # "none" /\ close_session THEN closed \cup {session} ELSE closed
    /\ UNCHANGED <<transport, pc, op, result, probe, registries, callbacks, pollvars,
                   writes, faults, history, encryptor, second, singleton>>

\* ------------------------------------------------------------------------
\* Gateway responses explored.
DataOf(uid, endpoint) == Some([UniID |-> Some(uid), Endpoint |-> Some(endpoint)])

GatewayRecord(mac) ==
    [BlankRecord EXCEPT !.data = DataOf("gw", 0),
        !.sGateway = Some([NetworkLANMAC |-> Some(mac), ModelIdentifier |-> Some("UGE600")])]

\* a single-setpoint thermostat
Thermostat(uid, hold, running) ==
    [BlankRecord EXCEPT !.data = DataOf(uid, 9),
        !.DeviceL = Some([ModelIdentifier_i |-> Some("SQ610RF")]),
        !.sIT600TH = Some([LocalTemperature_x100 |-> Some(2050),
                           HeatingSetpoint_x100 |-> Some(2100),
                           HoldType |-> Some(hold), RunningState |-> Some(running)])]

\* a window contact that also measures temperature
WindowSensor(uid, alarmed, temperature) ==
    [BlankRecord EXCEPT !.data = DataOf(uid, 1),
        !.DeviceL = Some([ModelIdentifier_i |-> Some("SW600")]),
        !.sIASZS = Some([ErrorIASZSAlarmed1 |-> Some(alarmed)]),
        !.sTempS = Some([MeasuredValue_x100 |-> Some(temperature)])]

\* one endpoint of a relay
Switch(uid, endpoint, onoff) ==
    [BlankRecord EXCEPT !.data = DataOf(uid, endpoint),
        !.DeviceL = Some([ModelIdentifier_i |-> Some("SR600")]),
        !.sOnOffS = Some([OnOff |-> Some(onoff)])]

\* a relay record whose data handle carries no Endpoint
SwitchNoEndpoint(uid) ==
    [Switch(uid, 1, 1) EXCEPT !.data = Some([UniID |-> Some(uid), Endpoint |-> None])]

\* a roller shutter at a position, moving to a target
Cover(uid, position, target) ==
    [BlankRecord EXCEPT !.data = DataOf(uid, 1),
        !.DeviceL = Some([ModelIdentifier_i |-> Some("RS600")]),
        !.sLevelS = Some([CurrentLevel |-> Some(position),
                          MoveToLevel_f |-> Some(SetMoveToLevel(target))])]

InvHome ==
    <<GatewayRecord("mac1"), Thermostat("t1", 0, 1), WindowSensor("w1", 0, 1900),
      Switch("s1", 1, 1), Switch("s1", 2, 0), Cover("c1", 0, 0)>>
InvChanged ==
    <<GatewayRecord("mac1"), Thermostat("t1", 7, 1), Switch("s1", 1, 0),
      SwitchNoEndpoint("s2"), Cover("c1", 50, 100)>>
InvBare == <<GatewayRecord(""), GatewayRecord("mac2"), GatewayRecord("mac1")>>
InvNoGateway == <<Thermostat("t1", 0, 0)>>
InvSwitch == <<GatewayRecord("mac1"), Switch("s1", 1, 1)>>

Inventories == {InvHome, InvChanged, InvBare}
ConnectInventories == {InvHome, InvBare, InvNoGateway}

\* Calls of the write operations explored
CallsOf(names, ids, args) == [name : names, device_id : ids, arg : args]
WriteCalls ==
    CallsOf({"set_cover_position"}, {"c1", "nobody"}, {-1, 0, 100, 101})
    \cup CallsOf({"open_cover", "close_cover"}, {"c1", "t1", "nobody"}, {0})
    \cup CallsOf({"turn_on_switch_device", "turn_off_switch_device"},
                 {"s1_1", "s1", "nobody"}, {0})
    \cup CallsOf({"set_climate_device_preset"}, {"t1", "nobody"}, {PRESET_OFF, PRESET_ECO})
    \cup CallsOf({"set_climate_device_mode"}, {"t1", "nobody"}, {HVAC_MODE_HEAT, HVAC_MODE_OFF})
    \cup CallsOf({"set_climate_device_fan_mode"}, {"t1", "nobody"}, {FAN_MODE_AUTO, FAN_MODE_LOW})
    \cup CallsOf({"set_climate_device_locked"}, {"t1", "nobody"}, {TRUE})
    \cup CallsOf({"set_climate_device_temperature"}, {"t1", "c1", "nobody"}, {2124, 2126})
SwitchCalls == CallsOf({"turn_on_switch_device"}, {"s1_1", "nobody"}, {0})

\* ------------------------------------------------------------------------
\* Spec: three tasks (connect, poll_status, a write operation) share the
\* transport; every way an exchange can end is explored.
Next ==
    \/ ConnectStart
    \/ \E inventory \in ConnectInventories : ConnectResponse(inventory)
    \/ \E answered \in BOOLEAN : ProbeDone(answered)
    \/ PollStart(FALSE)
    \/ PollInventory(InvSwitch)
    \/ RefreshStart
    \/ RefreshResponse
    \/ RefreshRecord
    \/ RefreshSwap
    \/ \E c \in SwitchCalls : WriteStart(c.name, c.device_id, c.arg)
    \/ WriteResponse
    \/ \E t \in Tasks : Acquire(t)
    \/ \E t \in Tasks, how \in Exchanges : HttpDone(t, how)

Spec == Init /\ [][Next]_vars

\* SpecFair: Spec with the scheduling the event loop gives. A task woken by
\* the release of the lock runs (Acquire), the coroutine that holds the lock
\* runs on when its exchange has ended (the response actions), and every
\* exchange ends, by a response, a client error or the timeout of
\* "async with async_timeout.timeout(self._request_timeout)" (HttpDone).
Fairness ==
    /\ \A t \in Tasks : WF_vars(Acquire(t))
    /\ \A t \in Tasks : WF_vars(\E how \in Exchanges : HttpDone(t, how))
    /\ WF_vars(\E inventory \in ConnectInventories : ConnectResponse(inventory))
    /\ WF_vars(PollInventory(InvSwitch))
    /\ WF_vars(RefreshResponse)
    /\ WF_vars(WriteResponse)

SpecFair == Init /\ [][Next]_vars /\ Fairness

\* SpecPoll: poll_status alone, over inventories of every kind, with failing
\* requests and with and without send_callback (no subscriber registered).
InitOwn == Init /\ session = "none"

NextPoll ==
    \/ \E notify \in BOOLEAN : PollStart(notify)
    \/ \E inventory \in Inventories : PollInventory(inventory)
    \/ RefreshStart
    \/ RefreshResponse
    \/ RefreshRecord
    \/ RefreshSwap
    \/ \E how \in {"success", "timeout", "failed"} : HttpDone("poll", how)

SpecPoll == InitOwn /\ [][NextPoll]_vars

\* SpecNotify: poll_status with subscribers, registered between polls.
NextNotify ==
    \/ \E notify \in BOOLEAN : PollStart(notify)
    \/ \E inventory \in {InvHome, InvChanged} : PollInventory(inventory)
    \/ RefreshStart
    \/ RefreshResponse
    \/ RefreshRecord
    \/ \E raises \in BOOLEAN : Notify(raises)
    \/ RefreshSwap
    \/ /\ pc["poll"] = "idle"
       /\ \E kind \in {"climate", "switch", "cover"}, method \in Subscribers :
             AddCallback(kind, method)
    \/ HttpDone("poll", "success")

SpecNotify == InitOwn /\ [][NextNotify]_vars

\* SpecInventory: poll_status with a switch subscriber, registered between
\* polls, and requests that fail.
NextInventory ==
    \/ \E notify \in BOOLEAN : PollStart(notify)
    \/ \E inventory \in {InvSwitch, InvHome} : PollInventory(inventory)
    \/ RefreshStart
    \/ RefreshResponse
    \/ RefreshRecord
    \/ Notify(FALSE)
    \/ RefreshSwap
    \/ pc["poll"] = "idle" /\ AddCallback("switch", "cb1")
    \/ \E how \in {"success", "timeout", "refused", "failed", "notjson"} :
          HttpDone("poll", how)

SpecInventory == InitOwn /\ [][NextInventory]_vars

\* SpecNested: poll_status whose subscribers issue write operations. A
\* subscriber is awaited by _send_<kind>_update_callback: it may await a write
\* operation of the gateway, and returns or raises once that operation is
\* over. connect() runs beside the poll and contends for the lock.
SubscriberCalls ==
    CallsOf({"turn_off_switch_device"}, {"s1_1", "s1_2", "nobody"}, {0})
    \cup CallsOf({"close_cover"}, {"c1"}, {0})

SubscriberWrites ==
    /\ pc["poll"] = "notify"
    /\ \E c \in SubscriberCalls : WriteStart(c.name, c.device_id, c.arg)

SubscriberEnds ==
    /\ pc["write"] = "idle"
    /\ \E raises \in BOOLEAN : Notify(raises)

NextNested ==
    \/ ConnectStart
    \/ ConnectResponse(InvHome)
    \/ PollStart(TRUE)
    \/ PollInventory(InvHome)
    \/ RefreshStart
    \/ RefreshResponse
    \/ RefreshRecord
    \/ RefreshSwap
    \/ SubscriberWrites
    \/ WriteResponse
    \/ SubscriberEnds
    \/ /\ pc["poll"] = "idle" /\ polls = 0
       /\ \E kind \in {"switch", "cover"} : AddCallback(kind, "cb1")
    \/ \E t \in Tasks : Acquire(t)
    \/ \E t \in Tasks : HttpDone(t, "success")
    \/ HttpDone("write", "timeout")

\* The event loop runs every coroutine that can run, every exchange ends, and
\* a subscriber that has nothing to wait for returns or raises
FairnessNested ==
    /\ \A t \in Tasks : WF_vars(Acquire(t))
    /\ \A t \in Tasks : WF_vars(HttpDone(t, "success") \/ HttpDone(t, "timeout"))
    /\ WF_vars(ConnectResponse(InvHome))
    /\ WF_vars(PollInventory(InvHome))
    /\ WF_vars(RefreshStart)
    /\ WF_vars(RefreshResponse)
    /\ WF_vars(RefreshRecord)
    /\ WF_vars(RefreshSwap)
    /\ WF_vars(WriteResponse)
    /\ WF_vars(SubscriberEnds)

SpecNested == InitOwn /\ [][NextNested]_vars /\ FairnessNested

\* SpecFrame: connect(), poll_status and write operations of every kind side
\* by side, with requests that succeed, time out or are rejected.
FrameCalls ==
    CallsOf({"set_cover_position"}, {"c1"}, {0, 101})
    \cup CallsOf({"turn_on_switch_device", "turn_off_switch_device"}, {"s1_1", "nobody"}, {0})
    \cup CallsOf({"set_climate_device_temperature"}, {"t1"}, {2124})

NextFrame ==
    \/ ConnectStart
    \/ \E inventory \in {InvHome, InvNoGateway} : ConnectResponse(inventory)
    \/ \E answered \in BOOLEAN : ProbeDone(answered)
    \/ PollStart(FALSE)
    \/ \E inventory \in {InvHome, InvChanged} : PollInventory(inventory)
    \/ RefreshStart
    \/ RefreshResponse
    \/ RefreshRecord
    \/ RefreshSwap
    \/ \E c \in FrameCalls : WriteStart(c.name, c.device_id, c.arg)
    \/ WriteResponse
    \/ \E t \in Tasks : Acquire(t)
    \/ HttpDone("poll", "success")
    \/ \E t \in {"connect", "write"}, how \in {"success", "timeout", "failed"} :
          HttpDone(t, how)

SpecFrame == InitOwn /\ [][NextFrame]_vars

\* SpecCancel: poll_status whose task is cancelled by its caller while it
\* awaits the response of a request.
NextCancel ==
    \/ \E notify \in BOOLEAN : PollStart(notify)
    \/ \E inventory \in {InvHome, InvSwitch} : PollInventory(inventory)
    \/ RefreshStart
    \/ RefreshResponse
    \/ RefreshRecord
    \/ RefreshSwap
    \/ \E how \in {"success", Cancelled} : HttpDone("poll", how)

SpecCancel == InitOwn /\ [][NextCancel]_vars

\* SpecWrite: every write operation, concurrent with poll_status.
NextWrite ==
    \/ \E notify \in BOOLEAN : PollStart(notify)
    \/ \E inventory \in {InvHome, InvChanged} : PollInventory(inventory)
    \/ RefreshStart
    \/ RefreshResponse
    \/ RefreshRecord
    \/ RefreshSwap
    \/ \E c \in WriteCalls : WriteStart(c.name, c.device_id, c.arg)
    \/ WriteResponse
    \/ \E t \in {"poll", "write"} : Acquire(t)
    \/ HttpDone("poll", "success")
    \/ \E how \in {"success", "timeout"} : HttpDone("write", how)

SpecWrite == InitOwn /\ [][NextWrite]_vars

\* ------------------------------------------------------------------------
\* SpecDecode: poll_status over inventories that exercise every branch of the
\* climate, switch and sensor decoders, with subscribers of the switch kind.

\* a dual-setpoint fan coil thermostat
FanCoil(uid, mode, hold, running) ==
    [BlankRecord EXCEPT !.data = DataOf(uid, 9),
        !.DeviceL = Some([ModelIdentifier_i |-> Some("FC600")]),
        !.sTherS = Some([LocalTemperature_x100 |-> Some(2200),
                         HeatingSetpoint_x100 |-> Some(2100),
                         CoolingSetpoint_x100 |-> Some(2400),
                         SystemMode |-> Some(mode),
                         RunningState |-> Some(running)]),
        !.sComm = Some([HoldType |-> Some(hold)]),
        !.sFanS = Some([FanMode |-> Some(5)]),
        !.sTherUIS = Some([LockKey |-> Some(0)])]

\* a record carrying the single-setpoint cluster and the three dual-setpoint
\* clusters at once
BothClusters(uid, hold, running) ==
    [FanCoil(uid, 3, 0, 66) EXCEPT
        !.sIT600TH = Some([LocalTemperature_x100 |-> Some(2050),
                           HeatingSetpoint_x100 |-> Some(2100),
                           HoldType |-> Some(hold), RunningState |-> Some(running)])]

\* the same, the single-setpoint cluster lacking its HoldType
BothClustersNoHold(uid) ==
    [FanCoil(uid, 3, 0, 66) EXCEPT
        !.sIT600TH = Some([BlankTH EXCEPT !.LocalTemperature_x100 = Some(2050),
                                          !.HeatingSetpoint_x100 = Some(2100)])]

\* a single-setpoint thermostat on hold type 7 that reports no running state
ThermostatNoRunning(uid) ==
    [Thermostat(uid, 7, 0) EXCEPT
        !.sIT600TH = Some([Val(Thermostat(uid, 7, 0).sIT600TH) EXCEPT
                              !.RunningState = None])]

\* a fan coil record without its fan cluster
NoFan(uid) == [FanCoil(uid, 4, 0, 33) EXCEPT !.sFanS = None]

\* a fan coil record whose thermostat cluster lacks its SystemMode
NoSystemMode(uid) ==
    [FanCoil(uid, 4, 0, 33) EXCEPT
        !.sTherS = Some([BlankTherS EXCEPT !.LocalTemperature_x100 = Some(2200)])]

\* one endpoint of a combined relay and roller shutter module
RelayShutter(uid, endpoint, onoff, position) ==
    [Switch(uid, endpoint, onoff) EXCEPT
        !.sLevelS = Some([CurrentLevel |-> Some(position),
                          MoveToLevel_f |-> Some(SetMoveToLevel(position))])]

\* one endpoint of a relay whose button is disabled
DisabledSwitch(uid, endpoint, onoff) ==
    [Switch(uid, endpoint, onoff) EXCEPT !.sButtonS = Some([Mode |-> Some(0)])]

\* a roller shutter whose button is disabled
DisabledCover(uid, position) ==
    [Cover(uid, position, position) EXCEPT !.sButtonS = Some([Mode |-> Some(0)])]

\* a smart plug that also measures temperature
Plug(uid, onoff, temperature) ==
    [Switch(uid, 9, onoff) EXCEPT
        !.DeviceL = Some([ModelIdentifier_i |-> Some("SP600")]),
        !.sTempS = Some([MeasuredValue_x100 |-> Some(temperature)])]

\* hold types and running states, in a fixed order
HoldSeq == <<0, 2, 7>>
RunningSeq == <<0, 1, 128, 129>>
FanCoilRunningSeq == <<0, 33, 66, 1>>

ThermostatId(prefix, hold, running) ==
    prefix \o ToString(hold) \o "r" \o ToString(running)

\* single-setpoint thermostats, one per hold type and running state
InvThermostats ==
    <<GatewayRecord("mac1")>> \o
    [i \in 1..(Len(HoldSeq) * Len(RunningSeq)) |->
        LET hold == HoldSeq[((i - 1) \div Len(RunningSeq)) + 1]
            running == RunningSeq[((i - 1) % Len(RunningSeq)) + 1]
        IN  Thermostat(ThermostatId("t", hold, running), hold, running)]

\* fan coils in heat mode, one per hold type and running state
InvFanCoilsHeat ==
    <<GatewayRecord("mac1")>> \o
    [i \in 1..(Len(HoldSeq) * Len(FanCoilRunningSeq)) |->
        LET hold == HoldSeq[((i - 1) \div Len(FanCoilRunningSeq)) + 1]
            running == FanCoilRunningSeq[((i - 1) % Len(FanCoilRunningSeq)) + 1]
        IN  FanCoil(ThermostatId("h", hold, running), 4, hold, running)]

\* fan coils in cool mode and in another mode, next to two thermostats
InvFanCoilsCool ==
    <<GatewayRecord("mac1"), FanCoil("f1", 3, 7, 66), FanCoil("f2", 3, 0, 66),
      FanCoil("f3", 3, 0, 0), FanCoil("f4", 3, 2, 33), FanCoil("f5", 0, 7, 0),
      FanCoil("f6", 0, 10, 66), Thermostat("t7", 7, 129), ThermostatNoRunning("t8")>>

\* a single-setpoint thermostat whose record also carries a temperature
\* measurement cluster
ThermostatWithTemp(uid, temperature) ==
    [Thermostat(uid, 0, 1) EXCEPT
        !.sTempS = Some([MeasuredValue_x100 |-> Some(temperature)])]

\* records between the two climate paths
InvClimateMixed ==
    <<GatewayRecord("mac1"), BothClusters("b1", 0, 129), BothClusters("b2", 7, 0),
      BothClustersNoHold("b3"), NoFan("n1"), NoSystemMode("n2"),
      Thermostat("t1", 2, 128), FanCoil("f1", 4, 0, 33),
      ThermostatWithTemp("t2", 2050), WindowSensor("w1", 0, 1900)>>

\* relays, a combined relay/shutter module, a disabled endpoint, a plug
InvRelays ==
    <<GatewayRecord("mac1"), Switch("s1", 1, 1), Switch("s1", 2, 0),
      RelayShutter("r1", 1, 1, 40), DisabledSwitch("d1", 1, 1), Plug("p1", 1, 2310),
      WindowSensor("w1", 1, 1900), DisabledCover("c2", 10), Cover("c1", 0, 0)>>
InvRelaysLater ==
    <<GatewayRecord("mac1"), Switch("s1", 1, 0), RelayShutter("r1", 1, 0, 0),
      DisabledSwitch("d1", 1, 0), Plug("p1", 0, 2290), Switch("s1", 2, 1)>>

\* a roller shutter that reports no level (an empty level cluster)
CoverNoLevel(uid) ==
    [Cover(uid, 0, 0) EXCEPT
        !.sLevelS = Some([CurrentLevel |-> None, MoveToLevel_f |-> None])]

\* roller shutters closed, nearly closed, half open, open, moving, silent, and
\* one below a target whose hex digits read as decimal lie below it ("32")
InvCovers ==
    <<GatewayRecord("mac1"), Cover("c0", 0, 0), Cover("c1", 1, 1), Cover("c2", 50, 50),
      Cover("c3", 100, 100), Cover("c4", 0, 100), Cover("c5", 30, 0),
      CoverNoLevel("c6"), Cover("c7", 40, 50)>>

\* a contact, leak or smoke detector, or a button, reporting its alarm status
AlarmSensor(uid, model, alarmed) ==
    [BlankRecord EXCEPT !.data = DataOf(uid, 1),
        !.DeviceL = Some([ModelIdentifier_i |-> Some(model)]),
        !.sIASZS = Some([ErrorIASZSAlarmed1 |-> alarmed]),
        !.sIT600I = Some([RelayStatus |-> Some(1)])]

\* a radiator valve or a receiver, reporting its relay status beside an alarm
\* status of the opposite value
RelaySensor(uid, model, relay, alarmed) ==
    [BlankRecord EXCEPT !.data = DataOf(uid, 1),
        !.DeviceL = Some([ModelIdentifier_i |-> Some(model)]),
        !.sBasicS = Some([ModelIdentifier |-> Some(model)]),
        !.sIASZS = Some([ErrorIASZSAlarmed1 |-> Some(alarmed)]),
        !.sIT600I = Some([RelayStatus |-> relay])]

\* detectors alarmed, quiet and reporting another value, a button, a detector
\* without alarm status, valves and receivers on, off and without relay status
InvDetectors ==
    <<GatewayRecord("mac1"),
      AlarmSensor("w1", "SW600", Some(1)), AlarmSensor("w2", "WLS600", Some(0)),
      AlarmSensor("w3", "SmokeSensor-EM", Some(2)), AlarmSensor("b1", "SB600", Some(1)),
      AlarmSensor("w4", "OS600", None),
      RelaySensor("v1", "it600MINITRV", Some(1), 0),
      RelaySensor("v2", "it600Receiver", Some(0), 1),
      RelaySensor("v3", "it600MINITRV", None, 1)>>

DecodeInventories ==
    {InvThermostats, InvFanCoilsHeat, InvFanCoilsCool, InvClimateMixed,
     InvRelays, InvRelaysLater, InvCovers, InvDetectors}

NextDecode ==
    \/ \E notify \in BOOLEAN : PollStart(notify)
    \/ \E inventory \in DecodeInventories : PollInventory(inventory)
    \/ RefreshStart
    \/ RefreshResponse
    \/ RefreshRecord
    \/ Notify(FALSE)
    \/ RefreshSwap
    \/ /\ pc["poll"] = "idle"
       /\ polls = 0
       /\ AddCallback("switch", "a")
    \/ HttpDone("poll", "success")

SpecDecode == InitOwn /\ [][NextDecode]_vars

\* ------------------------------------------------------------------------
\* SpecSetpoint: set_climate_device_temperature on thermostats and fan coils,
\* concurrent with poll_status.

\* a device with the three dual-setpoint clusters that is not a fan coil model
OtherModel(uid, mode) ==
    [FanCoil(uid, mode, 0, 0) EXCEPT
        !.DeviceL = Some([ModelIdentifier_i |-> Some("SQ605RF")])]

\* a fan coil record that names no model
NoModel(uid, mode) == [FanCoil(uid, mode, 0, 0) EXCEPT !.DeviceL = None]

InvSetpoint ==
    <<GatewayRecord("mac1"), Thermostat("t1", 0, 1), FanCoil("f1", 4, 0, 33),
      FanCoil("f2", 3, 0, 66), FanCoil("f3", 0, 0, 0), OtherModel("o1", 3),
      NoModel("o2", 3)>>

\* setpoint_celsius, in hundredths of a degree
Setpoints == {-26, 0, 2100, 2124, 2125, 2126, 2150, 2175, 2176}

SetpointCalls ==
    CallsOf({"set_climate_device_temperature"},
            {"t1", "f1", "f2", "f3", "o1", "o2", "nobody"}, Setpoints)

NextSetpoint ==
    \/ PollStart(FALSE)
    \/ PollInventory(InvSetpoint)
    \/ RefreshStart
    \/ RefreshResponse
    \/ RefreshRecord
    \/ RefreshSwap
    \/ \E c \in SetpointCalls : WriteStart(c.name, c.device_id, c.arg)
    \/ WriteResponse
    \/ \E t \in {"poll", "write"} : Acquire(t)
    \/ HttpDone("poll", "success")
    \/ \E how \in {"success", "timeout"} : HttpDone("write", how)

SpecSetpoint == InitOwn /\ [][NextSetpoint]_vars

\* SpecClimate: the climate write operations, called between polls with every
\* mode, fan mode and preset for thermostats and fan coils of every shape.
InvClimate ==
    <<GatewayRecord("mac1"), Thermostat("t1", 0, 1), FanCoil("f1", 4, 0, 33),
      FanCoil("f2", 3, 0, 66), OtherModel("o1", 3), NoModel("o2", 3)>>

ClimateIds == {"t1", "f1", "f2", "o1", "o2", "nobody"}

ClimateCalls ==
    CallsOf({"set_climate_device_mode"}, ClimateIds,
            {HVAC_MODE_OFF, HVAC_MODE_HEAT, HVAC_MODE_COOL, HVAC_MODE_AUTO})
    \cup CallsOf({"set_climate_device_fan_mode"}, ClimateIds,
                 {FAN_MODE_AUTO, FAN_MODE_HIGH, FAN_MODE_MEDIUM, FAN_MODE_LOW, FAN_MODE_OFF})
    \cup CallsOf({"set_climate_device_preset"}, ClimateIds,
                 {PRESET_FOLLOW_SCHEDULE, PRESET_PERMANENT_HOLD, PRESET_TEMPORARY_HOLD,
                  PRESET_ECO, PRESET_OFF})
    \cup CallsOf({"set_climate_device_temperature"}, ClimateIds, {2124})

NextClimate ==
    \/ PollStart(FALSE)
    \/ PollInventory(InvClimate)
    \/ RefreshStart
    \/ RefreshResponse
    \/ RefreshRecord
    \/ RefreshSwap
    \/ /\ pc["poll"] = "idle"
       /\ \E c \in ClimateCalls : WriteStart(c.name, c.device_id, c.arg)
    \/ WriteResponse
    \/ \E t \in {"poll", "write"} : HttpDone(t, "success")

SpecClimate == InitOwn /\ [][NextClimate]_vars

\* ------------------------------------------------------------------------
\* SpecSession: connect, poll_status and a write operation start concurrently
\* on a gateway with or without a session of its caller; close() is called at
\* any moment, and requests made after it fail on the closed session.
NextSession ==
    \/ ConnectStart
    \/ ConnectResponse(InvSwitch)
    \/ \E answered \in BOOLEAN : ProbeDone(answered)
    \/ PollStart(FALSE)
    \/ PollInventory(InvSwitch)
    \/ RefreshStart
    \/ RefreshResponse
    \/ RefreshRecord
    \/ RefreshSwap
    \/ \E c \in SwitchCalls : WriteStart(c.name, c.device_id, c.arg)
    \/ WriteResponse
    \/ \E t \in Tasks : Acquire(t)
    \/ \E t \in Tasks, how \in {"success", "timeout", SessionClosed} : HttpDone(t, how)
    \/ Close

SpecSession == Init /\ [][NextSession]_vars

\* ------------------------------------------------------------------------
\* encryptor.py: IT600Encryptor.  A str is the sequence of its code points,
\* bytes are a sequence of 0..255.  AES and MD5 are library code: AES is
\* modelled as a keyed permutation of 16-byte blocks and MD5 as a 16-byte
\* digest of its input; padding, chaining, key derivation and the text
\* codec are modelled as the code performs them.

BlockSize == 16
MaxEncrypts == 2

\* IT600Encryptor.iv
iv == <<136, 166, 176, 121, 93, 133, 219, 252, 230, 224, 179, 233, 166, 41, 101, 75>>

\* Mutant of lower: the EUID is used as given
lowerNot(str) == str

\* str.lower() and str.upper() on ASCII letters
lower(str) == [i \in 1..Len(str) |-> IF str[i] \in 65..90 THEN str[i] + 32 ELSE str[i]]
upper(str) == [i \in 1..Len(str) |-> IF str[i] \in 97..122 THEN str[i] - 32 ELSE str[i]]

\* str.encode("utf-8"), for code points below 2048
RECURSIVE encode(_)
encode(str) ==
    IF str = <<>> THEN <<>>
    ELSE (IF Head(str) < 128 THEN <<Head(str)>>
          ELSE <<192 + (Head(str) \div 64), 128 + (Head(str) % 64)>>) \o encode(Tail(str))

\* bytes.decode("utf-8"): the text, or nothing when it raises UnicodeDecodeError
RECURSIVE decode(_)
decode(bytes) ==
    IF bytes = <<>> THEN Some(<<>>)
    ELSE IF bytes[1] < 128
    THEN LET rest == decode(Tail(bytes))
         IN  IF rest = None THEN None ELSE Some(<<bytes[1]>> \o Val(rest))
    ELSE IF bytes[1] \in 194..223 /\ Len(bytes) >= 2 /\ bytes[2] \in 128..191
    THEN LET rest == decode(Tail(Tail(bytes)))
         IN  IF rest = None THEN None
             ELSE Some(<<(bytes[1] - 192) * 64 + (bytes[2] - 128)>> \o Val(rest))
    ELSE None

\* hashlib.md5(data).digest(): 16 bytes determined by the data
md5(data) ==
    LET RECURSIVE mix(_, _)
        mix(i, j) == IF j = 0 THEN (17 * i + 31 * Len(data)) % 256
                     ELSE (mix(i, j - 1) * 5 + data[j] * (i + j)) % 256
    IN  [i \in 1..16 |-> mix(i, Len(data))]

\* "Salus-"
Salus == <<83, 97, 108, 117, 115, 45>>

\* IT600Encryptor.__init__: the key of self.cipher
Key(id) == md5(encode(Salus \o lower(id))) \o [i \in 1..16 |-> 0]

\* Bitwise exclusive or of two bytes
RECURSIVE Xor(_, _)
Xor(a, b) ==
    IF a = 0 /\ b = 0 THEN 0
    ELSE ((a + b) % 2) + 2 * Xor(a \div 2, b \div 2)
XorBlock(a, b) == [i \in 1..BlockSize |-> Xor(a[i], b[i])]

\* algorithms.AES(key) on one block, and its inverse
AESEncrypt(key, block) ==
    [i \in 1..BlockSize |-> (block[(i % BlockSize) + 1] + key[i] + key[i + 16]) % 256]
AESDecrypt(key, block) ==
    [i \in 1..BlockSize |->
        LET j == IF i = 1 THEN BlockSize ELSE i - 1
        IN  (block[j] + 512 - key[j] - key[j + 16]) % 256]

\* modes.CBC(iv): encryptor.update(data) + encryptor.finalize()
RECURSIVE CBCEncrypt(_, _, _)
CBCEncrypt(key, previous, data) ==
    IF data = <<>> THEN <<>>
    ELSE LET block == AESEncrypt(key, XorBlock(SubSeq(data, 1, BlockSize), previous))
         IN  block \o CBCEncrypt(key, block, SubSeq(data, BlockSize + 1, Len(data)))

\* modes.CBC(iv): decryptor.update(data) + decryptor.finalize()
RECURSIVE CBCDecrypt(_, _, _)
CBCDecrypt(key, previous, data) ==
    IF data = <<>> THEN <<>>
    ELSE LET block == SubSeq(data, 1, BlockSize)
         IN  XorBlock(AESDecrypt(key, block), previous)
             \o CBCDecrypt(key, block, SubSeq(data, BlockSize + 1, Len(data)))

\* Mutant of Pad: data that already fills its blocks is not padded
PadPartial(data) ==
    IF Len(data) % BlockSize = 0 THEN data
    ELSE data \o [i \in 1..(BlockSize - (Len(data) % BlockSize)) |->
                    BlockSize - (Len(data) % BlockSize)]

\* padding.PKCS7(128).padder(): update(data) + finalize()
Pad(data) ==
    data \o [i \in 1..(BlockSize - (Len(data) % BlockSize)) |->
               BlockSize - (Len(data) % BlockSize)]

\* padding.PKCS7(128).unpadder(): update(data) + finalize(), or nothing when
\* it raises ValueError("Invalid padding bytes.")
Unpad(data) ==
    IF data = <<>> \/ Len(data) % BlockSize # 0 THEN None
    ELSE LET n == data[Len(data)]
         IN  IF n \in 1..BlockSize /\ \A i \in (Len(data) - n + 1)..Len(data) : data[i] = n
             THEN Some(SubSeq(data, 1, Len(data) - n))
             ELSE None

\* IT600Encryptor.encrypt(plain) of an instance with the given key
encrypt(key, str) == CBCEncrypt(key, iv, Pad(encode(str)))

\* IT600Encryptor.decrypt(cypher): the text it returns, or what it raises
decrypt(key, cypher) ==
    IF Len(cypher) % BlockSize # 0 THEN [raises |-> "ValueError", text |-> <<>>]
    ELSE LET data == Unpad(CBCDecrypt(key, iv, cypher))
         IN  IF data = None THEN [raises |-> "ValueError", text |-> <<>>]
             ELSE IF decode(Val(data)) = None
             THEN [raises |-> "UnicodeDecodeError", text |-> <<>>]
             ELSE [raises |-> "", text |-> Val(decode(Val(data)))]

\* The EUID an instance is built from
EuidOf(instance) ==
    CASE instance = "X" -> euid
      [] instance = "lower" -> lower(euid)
      [] instance = "upper" -> upper(euid)

\* IT600Encryptor(euid)
New(instance) ==
    /\ cipher[instance] = None
    /\ cipher' = [cipher EXCEPT ![instance] = Some(Key(EuidOf(instance)))]
    /\ UNCHANGED <<gatewayvars, singleton, euid, plain, encrypted, decrypted>>

\* instance.encrypt(plain)
Encrypt(instance) ==
    /\ cipher[instance] # None
    /\ Len(encrypted[instance]) < MaxEncrypts
    /\ encrypted' = [encrypted EXCEPT ![instance] =
                        Append(@, encrypt(Val(cipher[instance]), plain))]
    /\ UNCHANGED <<gatewayvars, singleton, euid, plain, cipher, decrypted>>

\* instance.decrypt(c) for the bytes c its last encrypt() returned
Decrypt(instance) ==
    /\ cipher[instance] # None
    /\ encrypted[instance] # <<>>
    /\ decrypted[instance] = None
    /\ decrypted' = [decrypted EXCEPT ![instance] =
                        Some(decrypt(Val(cipher[instance]),
                                     encrypted[instance][Len(encrypted[instance])]))]
    /\ UNCHANGED <<gatewayvars, singleton, euid, plain, cipher, encrypted>>

\* EUIDs and plaintexts explored: "0a", "0A", "aF", "Af", "9f", "F0"; texts of
\* the letter p, or of p and e-acute (two bytes in UTF-8), whose encodings
\* end before, at and after a block boundary
EUIDs == {<<48, 97>>, <<48, 65>>, <<97, 70>>, <<65, 102>>, <<57, 102>>, <<70, 48>>}
PlainLengths == {0, 1, 13, 15, 16, 17, 32}
PlainTexts ==
    {[i \in 1..n |-> 112] : n \in PlainLengths}
    \cup {[i \in 1..n |-> IF i % 4 = 0 THEN 233 ELSE 112] : n \in PlainLengths}

InitCodec ==
    /\ InitGateway /\ session = "none"
    /\ InitSingleton
    /\ InitEncryptor
    /\ euid \in EUIDs
    /\ plain \in PlainTexts

NextCodec ==
    \/ \E i \in Instances : New(i)
    \/ \E i \in Instances : Encrypt(i)
    \/ \E i \in Instances : Decrypt(i)

SpecCodec == InitCodec /\ [][NextCodec]_vars

\* ------------------------------------------------------------------------
\* gateway_singleton.py: IT600GatewaySingleton.get_instance, called by
\* threads.  A thread can be preempted between any two reads or writes of the
\* class attributes; the gateways constructed are numbered in the order of
\* their construction, and made[n] holds the arguments gateway n was built
\* from.

\* The arguments of a call
SingletonArgs ==
    {[euid |-> "e1", host |-> "h1", port |-> 80, session |-> "none"],
     [euid |-> "e2", host |-> "h2", port |-> 8080, session |-> "supplied"]}

\* "not IT600GatewaySingleton.__instance__"
Unset == held = None

\* Mutant of Unlocked: the lock excludes nobody
UnlockedAlways == TRUE

\* threading.Lock: acquire() returns when no thread holds the lock
Unlocked == holder = None

\* A thread calls get_instance(euid, host, port, ..., session)
GetInstance(t, a) ==
    /\ tpc[t] \in {"idle", "raised"}
    /\ tpc' = [tpc EXCEPT ![t] = "outer"]
    /\ targs' = [targs EXCEPT ![t] = Some(a)]
    /\ tret' = [tret EXCEPT ![t] = None]
    /\ UNCHANGED <<held, holder, fresh, made, gatewayvars, encryptor>>

\* "if not IT600GatewaySingleton.__instance__:", outside the lock
OuterCheck(t) ==
    /\ tpc[t] = "outer"
    /\ tpc' = [tpc EXCEPT ![t] = IF Unset THEN "acquire" ELSE "return"]
    /\ UNCHANGED <<held, holder, targs, fresh, tret, made, gatewayvars, encryptor>>

\* "with IT600GatewaySingleton.__lock__:" is entered
EnterLock(t) ==
    /\ tpc[t] = "acquire"
    /\ Unlocked
    /\ holder' = Some(t)
    /\ tpc' = [tpc EXCEPT ![t] = "inner"]
    /\ UNCHANGED <<held, targs, fresh, tret, made, gatewayvars, encryptor>>

\* "if not IT600GatewaySingleton.__instance__:", inside the lock
InnerCheck(t) ==
    /\ tpc[t] = "inner"
    /\ tpc' = [tpc EXCEPT ![t] = IF Unset THEN "construct" ELSE "exit"]
    /\ UNCHANGED <<held, holder, targs, fresh, tret, made, gatewayvars, encryptor>>

\* "IT600Gateway(euid=euid, host=host, ...)": the constructor returns a new
\* gateway, or raises (IT600Encryptor(euid) for an euid that is no str,
\* asyncio.Lock() before Python 3.10 in a thread without event loop)
Construct(t, built) ==
    /\ tpc[t] = "construct"
    /\ IF built
       THEN /\ made' = Append(made, Val(targs[t]))
            /\ fresh' = [fresh EXCEPT ![t] = Some(Len(made) + 1)]
            /\ tpc' = [tpc EXCEPT ![t] = "store"]
       ELSE /\ tpc' = [tpc EXCEPT ![t] = "unwind"]
            /\ UNCHANGED <<made, fresh>>
    /\ UNCHANGED <<held, holder, targs, tret, gatewayvars, encryptor>>

\* "IT600GatewaySingleton.__instance__ = ..."
Store(t) ==
    /\ tpc[t] = "store"
    /\ held' = fresh[t]
    /\ fresh' = [fresh EXCEPT ![t] = None]
    /\ tpc' = [tpc EXCEPT ![t] = "exit"]
    /\ UNCHANGED <<holder, targs, tret, made, gatewayvars, encryptor>>

\* the with block is left, normally or by the constructor's exception
Exit(t) ==
    /\ tpc[t] \in {"exit", "unwind"}
    /\ holder' = None
    /\ tpc' = [tpc EXCEPT ![t] = IF tpc[t] = "exit" THEN "return" ELSE "raised"]
    /\ UNCHANGED <<held, targs, fresh, tret, made, gatewayvars, encryptor>>

\* "return IT600GatewaySingleton.__instance__"
Return(t) ==
    /\ tpc[t] = "return"
    /\ tret' = [tret EXCEPT ![t] = held]
    /\ tpc' = [tpc EXCEPT ![t] = "idle"]
    /\ UNCHANGED <<held, holder, targs, fresh, made, gatewayvars, encryptor>>

\* SpecSingleton: three threads call get_instance again and again, with the
\* same or with different arguments.
NextSingleton ==
    \/ \E t \in Threads, a \in SingletonArgs : GetInstance(t, a)
    \/ \E t \in Threads : OuterCheck(t)
    \/ \E t \in Threads : EnterLock(t)
    \/ \E t \in Threads : InnerCheck(t)
    \/ \E t \in Threads, built \in BOOLEAN : Construct(t, built)
    \/ \E t \in Threads : Store(t)
    \/ \E t \in Threads : Exit(t)
    \/ \E t \in Threads : Return(t)

SpecSingleton == InitOwn /\ [][NextSingleton]_vars

\* ------------------------------------------------------------------------
\* Properties.

InRequest(t) == pc[t] \in {"http", "respond"}
Finished(t) == result[t].state \in {"returned", "raised"}

\* C1: under any interleaving of connect, poll_status and a write operation,
\* at most one task is between the sending of its POST and the end of its
\* response handling (read, decrypt, status check), and that task holds the
\* lock.
C1_OneRequestInFlight ==
    /\ Cardinality({t \in Tasks : InRequest(t)}) <= 1
    /\ \A t \in Tasks : InRequest(t) => lockOwner = Some(t)

\* C1 witness: one request in flight while the two other callers wait
C1_Witness == \E t \in Tasks : InRequest(t) /\ Len(waiters) = 2

\* The registry a successful refresh of a kind builds from the records of a
\* response: the devices decoded from them, later records overriding earlier
\* ones with the same unique id.
RECURSIVE DecodedFrom(_, _, _)
DecodedFrom(kind, records, acc) ==
    IF records = <<>> THEN acc
    ELSE LET r == Decode(kind, Head(records))
         IN  DecodedFrom(kind, Tail(records),
                         IF r.tag = "device"
                         THEN DictSet(acc, r.device.unique_id, r.device) ELSE acc)

\* The gateway device a successful gateway refresh ends with: the last one
\* decoded from the records of the response
RECURSIVE LastGateway(_, _)
LastGateway(records, acc) ==
    IF records = <<>> THEN acc
    ELSE LET r == Decode("gateway", Head(records))
         IN  LastGateway(Tail(records), IF r.tag = "device" THEN Some(r.device) ELSE acc)

\* ------------------------------------------------------------------------
\* A second poll_status(send_callback=False), called by another task while the
\* first is in progress. Its locals are its own; without send_callback the
\* loop of a refresh over the records has no await, so the handling of a
\* read-by-id response, loop and registry assignment included, is one step.

Kind2 == Kinds[kindIdx2]

\* As Advance, for the second poll_status
Advance2 ==
    IF kindIdx2 = Len(Kinds)
    THEN /\ pc' = [pc EXCEPT !["poll2"] = "idle"]
         /\ result' = [result EXCEPT !["poll2"] = Returned("")]
         /\ UNCHANGED kindIdx2
    ELSE /\ pc' = [pc EXCEPT !["poll2"] = "kind"]
         /\ kindIdx2' = kindIdx2 + 1
         /\ UNCHANGED result

Poll2Start ==
    /\ pc["poll2"] = "idle"
    /\ polls < MaxPolls
    /\ polls' = polls + 1
    /\ result' = [result EXCEPT !["poll2"] = Running]
    /\ Send("poll2", "readall", ReadAll)
    /\ sent' = [sent EXCEPT !["poll2"] = IF LockFree THEN 1 ELSE 0]
    /\ UNCHANGED <<probe, registries, callbacks, send_callback, all_devices, kindIdx,
                   status, recIdx, local_device, local_devices, cbIdx, current, before,
                   threw, swapped, calls, writes, faults, history, closing, second,
                   encryptor, singleton>>

\* The inventory request of the second poll_status returns or raises
Poll2Inventory(inventory) ==
    /\ pc["poll2"] = "respond"
    /\ op["poll2"] = "readall"
    /\ Release("poll2")
    /\ IF Classify(exchange["poll2"]) = ""
       THEN /\ all_devices2' = inventory
            /\ kindIdx2' = 1
            /\ pc' = [pc EXCEPT !["poll2"] = "kind"]
            /\ UNCHANGED result
       ELSE /\ pc' = [pc EXCEPT !["poll2"] = "idle"]
            /\ result' = [result EXCEPT !["poll2"] = Raised(Classify(exchange["poll2"]))]
            /\ UNCHANGED second
    /\ UNCHANGED <<sent, op, probe, registries, callbacks, pollvars, writes, faults,
                   history, closing, encryptor, singleton>>

\* _refresh_<kind>_devices of the second poll_status, up to its request
Refresh2Start ==
    /\ pc["poll2"] = "kind"
    /\ LET devs == FilterSeq(Kind2, all_devices2)
       IN  IF devs = <<>>
           THEN /\ devices' = IF SwapsWhenEmpty(Kind2)
                              THEN [devices EXCEPT ![Kind2] = EmptyDict] ELSE devices
                /\ Advance2
                /\ UNCHANGED <<transport, op>>
           ELSE IF \E i \in 1..Len(devs) : devs[i].data = None
           THEN /\ Advance2
                /\ UNCHANGED <<transport, op, devices>>
           ELSE /\ Send("poll2", "byid", ReadById(devs))
                /\ sent' = [sent EXCEPT !["poll2"] = Posted("poll2")]
                /\ UNCHANGED <<kindIdx2, result, devices>>
    /\ UNCHANGED <<probe, gateway_device, callbacks, pollvars, writes, faults, history,
                   closing, all_devices2, encryptor, singleton>>

\* Whether the loop over the records of a response is left by an exception
LoopRaises(kind, records) ==
    \E i \in 1..Len(records) : Decode(kind, records[i]).tag = "raise"

\* The read-by-id request of a refresh of the second poll_status returns or
\* raises; when it returned, the loop over its records and
\* "self._<kind>_devices = local_devices"
Refresh2Response ==
    /\ pc["poll2"] = "respond"
    /\ op["poll2"] = "byid"
    /\ Release("poll2")
    /\ LET records == ByIdResponse(Kind2, all_devices2)
       IN  IF Classify(exchange["poll2"]) # "" \/ LoopRaises(Kind2, records)
           THEN UNCHANGED registries
           ELSE IF Kind2 = "gateway"
           THEN gateway_device' = LastGateway(records, None) /\ UNCHANGED devices
           ELSE /\ devices' = [devices EXCEPT ![Kind2] = DecodedFrom(Kind2, records, EmptyDict)]
                /\ UNCHANGED gateway_device
    /\ Advance2
    /\ UNCHANGED <<sent, op, probe, callbacks, pollvars, writes, faults, history, closing,
                   all_devices2, encryptor, singleton>>

\* SpecTwoPolls: two poll_status calls without send_callback side by side,
\* the second called while the first is in progress, over inventories whose
\* switches and covers differ, one of them with a switch record that raises.
InvBefore ==
    <<GatewayRecord("mac1"), Switch("s1", 1, 1), Switch("s1", 2, 0), Cover("c1", 0, 0)>>
InvAfter ==
    <<GatewayRecord("mac1"), Switch("s1", 1, 0), Switch("s1", 2, 1), Cover("c1", 50, 100)>>
TwoPollInventories == {InvBefore, InvAfter, InvChanged}

NextTwoPolls ==
    \/ PollStart(FALSE)
    \/ \E inventory \in TwoPollInventories : PollInventory(inventory)
    \/ RefreshStart
    \/ RefreshResponse
    \/ RefreshRecord
    \/ RefreshSwap
    \/ pc["poll"] # "idle" /\ Poll2Start
    \/ \E inventory \in TwoPollInventories : Poll2Inventory(inventory)
    \/ Refresh2Start
    \/ Refresh2Response
    \/ \E t \in {"poll", "poll2"} : Acquire(t)
    \/ \E t \in {"poll", "poll2"} : HttpDone(t, "success")

SpecTwoPolls == InitOwn /\ [][NextTwoPolls]_vars

C3_ThrownRefreshLeavesRegistry ==
    result["poll"].state = "returned" =>
       \A k \in threw \cap DictKinds : devices[k] = before[k]

\* The two error classes of the transport
ExpectedError(how) ==
    IF how \in {"timeout", "refused"} THEN "IT600ConnectionError" ELSE "IT600CommandError"

\* C4: when the handling of an exchange ends, the request raises a
\* connectivity error iff the exchange timed out or no connection could be
\* made, a command error for every other failure, and nothing on success;
\* a write operation and the inventory read of poll_status pass that error to
\* their caller.
C4_ErrorClasses ==
    [][\A t \in Tasks :
          (pc[t] = "respond" /\ pc'[t] # "respond") =>
             IF exchange[t] = "success" THEN error'[t] = ""
             ELSE /\ error'[t] = ExpectedError(exchange[t])
                  /\ op[t] \in WriteOps \cup {"readall"} =>
                        result'[t] = Raised(ExpectedError(exchange[t]))]_vars

\* C4 witness: a write failed with a command error and a poll with a
\* connectivity error
C4_Witness ==
    /\ result["write"] = Raised("IT600CommandError")
    /\ result["poll"] = Raised("IT600ConnectionError")

\* C5: the probe is started only after the inventory request of connect
\* raised a connectivity error; connect raises a connectivity error iff the
\* probe failed and an authentication error iff the probe was answered; no
\* other operation raises an authentication error.
C5_ProbeDecides ==
    /\ probe # "none" => error["connect"] = "IT600ConnectionError" /\ sent["connect"] = 1
    /\ result["connect"] = Raised("IT600ConnectionError") <=> probe = "failed"
    /\ result["connect"] = Raised("IT600AuthenticationError") <=> probe = "answered"
    /\ \A t \in Tasks \ {"connect"} : result[t] # Raised("IT600AuthenticationError")

\* C5 witness: the probe was answered and connect raised an authentication error
C5_Witness ==
    probe = "answered" /\ result["connect"] = Raised("IT600AuthenticationError")

MacOf(x) ==
    IF Attr(x, "sGateway", "NetworkLANMAC") = None THEN ""
    ELSE Val(Attr(x, "sGateway", "NetworkLANMAC"))
Least(S) == CHOOSE i \in S : \A j \in S : i <= j

\* C6: connect sends exactly one request, the full-inventory read; if the
\* response holds a record with a non-empty MAC, connect returns the MAC of
\* the first one; otherwise it raises a command error without probing.
C6_ConnectReturnsFirstMac ==
    /\ sent["connect"] <= 1
    /\ request["connect"] # None => Val(request["connect"]) = ReadAll
    /\ Finished("connect") => sent["connect"] = 1
    /\ result["connect"].state = "returned" => connect_devices # None
    /\ (Finished("connect") /\ connect_devices # None) =>
          LET inv == Val(connect_devices)
              withMac == {i \in 1..Len(inv) : MacOf(inv[i]) # ""}
          IN  IF withMac = {}
              THEN result["connect"] = Raised("IT600CommandError") /\ probe = "none"
              ELSE result["connect"] = Returned(MacOf(inv[Least(withMac)]))

\* C6 witness: the first record has an empty MAC, the second one is returned
C6_Witness ==
    /\ connect_devices = Some(InvBare)
    /\ result["connect"] = Returned("mac2")

OutOfRange(c) == c.name = "set_cover_position" /\ (c.arg < 0 \/ c.arg > 100)

\* C7 as stated: every write operation called with an id absent from its
\* registry returns normally and sends nothing.
C7_AbsentIdIsNoOp ==
    (wcall # None /\ ~Val(wcall).known) =>
       result["write"] = Returned("") /\ sent["write"] = 0

\* C7 amended: every write operation called with an id absent from its
\* registry - set_cover_position with a position within 0..100 - returns
\* normally and sends nothing, whatever poll_status is doing.
C7_AbsentIdInRangeIsNoOp ==
    (wcall # None /\ ~Val(wcall).known /\ ~OutOfRange(Val(wcall))) =>
       /\ result["write"] = Returned("")
       /\ sent["write"] = 0
       /\ pc["write"] = "idle"
       /\ request["write"] = None

\* C7 witness: a write for an unknown id returned while a poll was in its
\* record loop
C7_Witness ==
    /\ wcall # None /\ ~Val(wcall).known
    /\ result["write"] = Returned("")
    /\ pc["poll"] = "loop"

CoverRequest(position) ==
    [requestAttr |-> "write",
     id |-> <<[data |-> devices["cover"]["c1"].data, cluster |-> "sLevelS",
               attribute |-> "SetMoveToLevel",
               value |-> [type |-> "hex",
                          v |-> <<position \div 16, position % 16, 15, 15, 15, 15>>]]>>]

\* C8: set_cover_position with a position outside 0..100 raises ValueError
\* and sends nothing, for known and unknown ids; with a position within
\* 0..100 and a known id it sends exactly one write of that position;
\* open_cover and close_cover send the writes of positions 100 and 0.
C8_CoverPositionValidated ==
    wcall # None =>
       LET c == Val(wcall)
           position == IF c.name = "open_cover" THEN 100
                       ELSE IF c.name = "close_cover" THEN 0 ELSE c.arg
       IN  /\ OutOfRange(c) =>
                /\ result["write"] = Raised("ValueError")
                /\ sent["write"] = 0
                /\ request["write"] = None
           /\ (c.name \in {"set_cover_position", "open_cover", "close_cover"}
                 /\ ~OutOfRange(c) /\ c.known) =>
                /\ result["write"] # Raised("ValueError")
                /\ sent["write"] <= 1
                /\ Finished("write") => sent["write"] = 1
                /\ request["write"] # None => Val(request["write"]) = CoverRequest(position)
                /\ ~Finished("write") => request["write"] # None

\* C8 witness: position 101 was rejected for a cover the registry holds
C8_Witness ==
    /\ wcall # None /\ Val(wcall).known /\ OutOfRange(Val(wcall))
    /\ result["write"] = Raised("ValueError")

\* C9: while a refresh with send_callback set is in its loop, the live
\* registry returns this cycle's snapshot for every device decoded so far - in
\* particular for the one a subscriber is called for - and the previous
\* snapshot for the devices not decoded yet; the step ending the loop assigns
\* the registry exactly the devices accumulated in this cycle.
C9_InjectedThenSwapped ==
    /\ []((pc["poll"] \in {"loop", "notify"} /\ send_callback /\ Kind # "gateway") =>
            /\ \A u \in DOMAIN local_devices :
                  GetDevice(Kind, u) = Some(local_devices[u])
            /\ \A u \in DOMAIN before[Kind] \ DOMAIN local_devices :
                  GetDevice(Kind, u) = Some(before[Kind][u])
            /\ pc["poll"] = "notify" => Val(current) \in DOMAIN local_devices)
    /\ [][\A k \in DictKinds :
             (pc["poll"] = "loop" /\ k \in swapped' \ swapped) =>
                devices'[k] = local_devices]_vars

\* C9 witness: a subscriber is called for one switch endpoint, whose new
\* snapshot is visible, while the other endpoint still has its previous one
C9_Witness ==
    /\ pc["poll"] = "notify" /\ Kind = "switch" /\ current = Some("s1_1")
    /\ "s1_1" \in DOMAIN before["switch"]
    /\ devices["switch"]["s1_1"] # before["switch"]["s1_1"]
    /\ "s1_2" \in DOMAIN devices["switch"]
    /\ "s1_2" \notin DOMAIN local_devices

\* The subscriber calls a completed refresh of a kind makes for the records
\* of its response, when no subscriber raises
RECURSIVE ExpectedCalls(_, _)
ExpectedCalls(kind, records) ==
    IF records = <<>> THEN <<>>
    ELSE LET r == Decode(kind, Head(records))
             these == IF r.tag = "device"
                      THEN [i \in 1..Len(callbacks[kind]) |->
                              [kind |-> kind, subscriber |-> callbacks[kind][i],
                               device_id |-> r.device.unique_id, raised |-> FALSE]]
                      ELSE <<>>
         IN  these \o ExpectedCalls(kind, Tail(records))

SameKind(kind, c) == c.kind = kind
CallsOfKind(kind) == SelectSeq(calls, LAMBDA c : SameKind(kind, c))
CallsAsExpected ==
    \A k \in swapped \cap DictKinds :
       CallsOfKind(k) = ExpectedCalls(k, FilterSeq(k, all_devices))
NoneRaised == \A i \in 1..Len(calls) : ~calls[i].raised

\* C10: a poll without send_callback calls no subscriber; when a poll with
\* send_callback returns and no subscriber raised, the calls made for each
\* refreshed kind are, for each decoded device in turn, the subscribers of
\* that kind in registration order, each once, with that device's id.
C10_SubscribersInOrder ==
    /\ [](~send_callback => calls = <<>>)
    /\ [][(pc["poll"] # "idle" /\ pc'["poll"] = "idle" /\ send_callback /\ NoneRaised')
            => CallsAsExpected']_vars

\* C10 witness: two different subscribers of the switch kind were both
\* called for each of two switch endpoints, none raised, and the poll returned
C10_Witness ==
    /\ result["poll"].state = "returned" /\ send_callback /\ NoneRaised
    /\ Len(callbacks["switch"]) = 2 /\ callbacks["switch"][1] # callbacks["switch"][2]
    /\ Len(CallsOfKind("switch")) = 4

\* C11: when the handling of an exchange whose response has a status other
\* than "success" ends, the request raises a command error whose message
\* contains the command and the request body.
C11_RejectionNamesRequest ==
    [][\A t \in Tasks :
          (pc[t] = "respond" /\ pc'[t] # "respond" /\ exchange[t] = "failed") =>
             /\ error'[t] = "IT600CommandError"
             /\ message'[t].command = Some(Command(op[t]))
             /\ message'[t].content = request[t]]_vars

\* The read-by-id request carrying the handles of all records of a kind
Batch(records) ==
    [requestAttr |-> "deviceid",
     id |-> [i \in 1..Len(records) |-> [data |-> Val(records[i].data)]]]
HasHandles(records) == \A i \in 1..Len(records) : records[i].data # None
RefreshOrder == <<"gateway", "climate", "binary_sensor", "sensor", "switch", "cover">>

\* The requests of a complete poll when every kind sends one
RECURSIVE OnePerKind(_)
OnePerKind(n) ==
    IF n = 0 THEN <<>>
    ELSE Append(OnePerKind(n - 1), Batch(FilterSeq(RefreshOrder[n], all_devices)))

\* The requests of a complete poll when only the kinds with records send one
RECURSIVE OnePerPresentKind(_)
OnePerPresentKind(n) ==
    IF n = 0 THEN <<>>
    ELSE LET records == FilterSeq(RefreshOrder[n], all_devices)
         IN  OnePerPresentKind(n - 1) \o
             (IF records # <<>> /\ HasHandles(records) THEN <<Batch(records)>> ELSE <<>>)

\* C12 as stated: a poll_status that returned has issued the full-inventory
\* read and then one read-by-id request for each of the six kinds, in order,
\* each with the handles of all inventory records of that kind.
C12_OneRequestPerKind ==
    (result["poll"].state = "returned" /\ \A k \in DictKinds \cup {"gateway"} :
                                             HasHandles(FilterSeq(k, all_devices))) =>
       posts = <<ReadAll>> \o OnePerKind(6)

\* C12 amended: the requests of a poll_status are the full-inventory read
\* followed, in the order gateway, climate, binary sensor, sensor, switch,
\* cover, by one read-by-id request for each kind that has at least one
\* record in the inventory, carrying the handles of all those records; a kind
\* without records sends nothing, and a poll whose inventory read failed sends
\* nothing else.
C12_OneRequestPerPresentKind ==
    /\ Len(posts) = sent["poll"]
    /\ result["poll"].state = "raised" => posts = <<ReadAll>>
    /\ result["poll"].state = "returned" => posts = <<ReadAll>> \o OnePerPresentKind(6)
    /\ (pc["poll"] \in {"kind", "loop", "notify"} \/
          (pc["poll"] \in {"acquire", "http", "respond"} /\ op["poll"] = "byid")) =>
          \E n \in kindIdx - 1 .. kindIdx : posts = <<ReadAll>> \o OnePerPresentKind(n)

\* C12 witness: a poll returned after five requests: the inventory held
\* several switch records and no sensor record
C12_Witness ==
    /\ result["poll"].state = "returned"
    /\ all_devices = InvChanged
    /\ Len(posts) = 5
    /\ Len(posts[4].id) = 2

\* C13: whenever an encryptor decrypts the bytes its own encrypt() returned
\* for a plaintext, decrypt raises nothing and returns that plaintext.
C13_RoundTrip ==
    \A i \in Instances :
       decrypted[i] # None => Val(decrypted[i]) = [raises |-> "", text |-> plain]

\* C13 witness: a round trip of a text with a two-byte character whose
\* encoding fills its blocks exactly, so that padding adds a whole block
C13_Witness ==
    /\ decrypted["X"] # None
    /\ \E k \in 1..Len(plain) : plain[k] > 127
    /\ Len(encode(plain)) % BlockSize = 0
    /\ Len(encrypted["X"][1]) = Len(encode(plain)) + BlockSize

\* C14: all encrypt() results of the encryptors built from X, X.lower() and
\* X.upper() for one plaintext are the same bytes, across instances and
\* across repeated calls on one instance.
C14_CaseInsensitiveDeterministic ==
    \A i, j \in Instances :
       \A m \in 1..Len(encrypted[i]) : \A n \in 1..Len(encrypted[j]) :
          encrypted[i][m] = encrypted[j][n]

\* C14 witness: X has letters of both cases, so X, X.lower() and X.upper()
\* differ, and each instance has encrypted twice
C14_Witness ==
    /\ lower(euid) # euid /\ upper(euid) # euid
    /\ \A i \in Instances : Len(encrypted[i]) = 2

\* The climate records of the inventory of the current poll that carry a
\* unique id
ClimateRecords ==
    SelectSeq(FilterSeq("climate", all_devices), LAMBDA x : UniID(x) # None)

\* Shapes of a climate snapshot (models.py ClimateDevice): the single-setpoint
\* one has no fan and no lock, the dual-setpoint one has both
IsSingleSetpoint(d) ==
    /\ d.fan_mode = None /\ d.fan_modes = None /\ d.locked = None
    /\ d.hvac_modes = <<HVAC_MODE_OFF, HVAC_MODE_HEAT, HVAC_MODE_AUTO>>
IsDualSetpoint(d) ==
    /\ d.fan_mode # None /\ d.fan_modes # None /\ d.locked # None
    /\ d.hvac_modes = <<HVAC_MODE_HEAT, HVAC_MODE_COOL, HVAC_MODE_AUTO>>

\* The clusters of a record and the attributes each path reads with th[...]
HasSingleCluster(x) == x.sIT600TH # None
HasDualClusters(x) == x.sTherS # None /\ x.sComm # None /\ x.sFanS # None
SingleComplete(x) ==
    /\ HasSingleCluster(x)
    /\ Attr(x, "sIT600TH", "LocalTemperature_x100") # None
    /\ Attr(x, "sIT600TH", "HeatingSetpoint_x100") # None
    /\ Attr(x, "sIT600TH", "HoldType") # None
    /\ Attr(x, "sIT600TH", "HoldType") = Some(7)
         \/ Attr(x, "sIT600TH", "RunningState") # None
DualComplete(x) ==
    /\ HasDualClusters(x)
    /\ Attr(x, "sTherS", "SystemMode") # None
    /\ Attr(x, "sTherS", "LocalTemperature_x100") # None
    /\ IF Attr(x, "sTherS", "SystemMode") = Some(4)
       THEN Attr(x, "sTherS", "HeatingSetpoint_x100") # None
       ELSE Attr(x, "sTherS", "CoolingSetpoint_x100") # None
    /\ Attr(x, "sComm", "HoldType") # None
    /\ Attr(x, "sComm", "HoldType") = Some(7)
         \/ Attr(x, "sTherS", "RunningState") # None

SingleSnapshot(x) ==
    /\ Val(UniID(x)) \in DOMAIN devices["climate"]
    /\ IsSingleSetpoint(devices["climate"][Val(UniID(x))])
    /\ devices["climate"][Val(UniID(x))].target_temperature.hundredths
          = Val(Attr(x, "sIT600TH", "HeatingSetpoint_x100"))
DualSnapshot(x) ==
    /\ Val(UniID(x)) \in DOMAIN devices["climate"]
    /\ IsDualSetpoint(devices["climate"][Val(UniID(x))])
NoSnapshot(x) == Val(UniID(x)) \notin DOMAIN devices["climate"]

HoldOf(x) ==
    IF HasSingleCluster(x) THEN Attr(x, "sIT600TH", "HoldType")
    ELSE Attr(x, "sComm", "HoldType")

Complete(x) ==
    IF HasSingleCluster(x) THEN SingleComplete(x) ELSE DualComplete(x)

Snapshot(x) == devices["climate"][Val(UniID(x))]

EndpointRecords ==
    {x \in UNION {{inv[i] : i \in 1..Len(inv)} : inv \in DecodeInventories} :
        UniID(x) # None /\ Attr(x, "data", "Endpoint") # None}

NotifiedFor(kind, device_id) ==
    \E j \in 1..Len(calls) : calls[j].kind = kind /\ calls[j].device_id = device_id

\* C18: at every moment of every sequence of polls (with and without
\* send_callback, the same inventory polled again or another one), the switch
\* registry has no entry for an endpoint whose record carries a level cluster,
\* and no switch subscriber has been called for such an endpoint.
C18_LevelEndpointNotSwitch ==
    \A x \in EndpointRecords :
       x.sLevelS # None =>
          /\ SwitchId(x) \notin DOMAIN devices["switch"]
          /\ ~NotifiedFor("switch", SwitchId(x))

\* C18 witness: the inventory with a combined relay/shutter endpoint was
\* polled twice with a switch subscriber; the relays are registered and were
\* notified, the combined endpoint is registered as a cover only
C18_Witness ==
    /\ polls = 2 /\ result["poll"].state = "returned" /\ send_callback
    /\ all_devices = InvRelays /\ before["switch"] = devices["switch"]
    /\ "s1_1" \in DOMAIN devices["switch"]
    /\ NotifiedFor("switch", "s1_1")
    /\ "r1_1" \notin DOMAIN devices["switch"]
    /\ "r1" \in DOMAIN devices["cover"]

\* C19: after a poll has returned, the switch registry has no entry for an
\* endpoint whose record carries button mode 0 (disabled).
C19_DisabledEndpointNotSwitch ==
    result["poll"].state = "returned" =>
       \A x \in EndpointRecords :
          Attr(x, "sButtonS", "Mode") = Some(0) =>
             SwitchId(x) \notin DOMAIN devices["switch"]

\* The base id and the endpoint a snapshot was decoded from (its data handle)
BaseId(d) == Val(d.data.UniID)
EndpointOf(d) == Val(d.data.Endpoint)

\* The records of the inventory of the current poll that decode as switches
SwitchRecords ==
    SelectSeq(FilterSeq("switch", all_devices),
              LAMBDA x : Decode("switch", x).tag = "device")

\* C20: at every moment, every key of every registry is the unique_id of the
\* snapshot stored under it; a switch key is the base id, "_" and the endpoint
\* number of its record; a sensor key is the base id and "_temp"; and once the
\* switch refresh of a poll has assigned the registry, two switch records of
\* one base id with different endpoints have two distinct entries.
C20_KeyIsUniqueId ==
    /\ \A k \in DictKinds : \A key \in DOMAIN devices[k] :
          devices[k][key].unique_id = key
    /\ \A key \in DOMAIN devices["switch"] :
          LET d == devices["switch"][key]
          IN  key = BaseId(d) \o "_" \o ToString(EndpointOf(d))
    /\ \A key \in DOMAIN devices["sensor"] :
          key = BaseId(devices["sensor"][key]) \o "_temp"
    /\ "switch" \in swapped =>
          \A i, j \in 1..Len(SwitchRecords) :
             LET x == SwitchRecords[i]
                 y == SwitchRecords[j]
             IN  (UniID(x) = UniID(y)
                    /\ Attr(x, "data", "Endpoint") # Attr(y, "data", "Endpoint")) =>
                    /\ SwitchId(x) # SwitchId(y)
                    /\ {SwitchId(x), SwitchId(y)} \subseteq DOMAIN devices["switch"]
                    /\ devices["switch"][SwitchId(x)] # devices["switch"][SwitchId(y)]

\* C20 witness: after one poll the two endpoints of relay s1 are two switch
\* entries, plug p1 is a switch and a sensor, window contact w1 a binary
\* sensor and a sensor
C20_Witness ==
    /\ result["poll"].state = "returned" /\ all_devices = InvRelays
    /\ {"s1_1", "s1_2", "p1_9"} \subseteq DOMAIN devices["switch"]
    /\ {"p1_temp", "w1_temp"} \subseteq DOMAIN devices["sensor"]
    /\ "w1" \in DOMAIN devices["binary_sensor"]
    /\ BaseId(devices["switch"]["s1_1"]) = BaseId(devices["switch"]["s1_2"])
    /\ BaseId(devices["switch"]["p1_9"]) = BaseId(devices["sensor"]["p1_temp"])

\* C21: at every moment, every snapshot of the cover registry has is_closed
\* true exactly when its current position is 0 (a cover that reports no
\* position is not closed).
C21_ClosedIffZero ==
    \A key \in DOMAIN devices["cover"] :
       LET d == devices["cover"][key]
       IN  d.is_closed <=>
              (d.current_cover_position # None /\ Val(d.current_cover_position) = 0)

\* C21 witness: a poll registered covers at 0 (closed), at 1, 50 and 100 (not
\* closed), a cover at 0 moving to 100 (closed) and a cover without position
C21_Witness ==
    /\ "cover" \in swapped /\ all_devices = InvCovers
    /\ {"c0", "c1", "c2", "c3", "c4", "c6"} \subseteq DOMAIN devices["cover"]
    /\ devices["cover"]["c0"].is_closed
    /\ devices["cover"]["c4"].is_closed
    /\ ~devices["cover"]["c1"].is_closed
    /\ ~devices["cover"]["c3"].is_closed
    /\ devices["cover"]["c6"].current_cover_position = None
    /\ ~devices["cover"]["c6"].is_closed

\* The call of the write operation and the single entry of its request body
Call == Val(wcall)
Written == Val(request["write"]).id[1]
Distance(a, b) == IF a >= b THEN a - b ELSE b - a
SetpointRequested ==
    /\ wcall # None /\ Call.name = "set_climate_device_temperature"
    /\ request["write"] # None

ExpectedSetpointRequest(d, value) ==
    [requestAttr |-> "write",
     id |-> <<[data |-> d.data,
               cluster |-> IF d.model = Some("FC600") THEN "sTherS" ELSE "sIT600TH",
               attribute |-> IF d.model = Some("FC600") /\ d.hvac_mode = HVAC_MODE_COOL
                             THEN "SetCoolingSetpoint_x100"
                             ELSE "SetHeatingSetpoint_x100",
               value |-> value]>>]

C24_OwnSessionOnly ==
    /\ [](created <= 1)
    /\ [](created = 1 <=> session = "created")
    /\ []("supplied" \notin closed)
    /\ []("created" \in closed <=> "created" \in close_calls)
    /\ [][created' # created => session = "none" /\ session' = "created"]_vars
    /\ [][session = "supplied" => session' = "supplied"]_vars

\* C24 witness: three requests started on a gateway without session, queued
\* behind each other; one session was constructed and close() has closed it,
\* after a close() that found no session to close
C24_Witness ==
    /\ created = 1 /\ closed = {"created"} /\ close_calls = {"none", "created"}
    /\ Len(waiters) = 2 /\ lockOwner # None

\* The other case of C24: close() was called on a gateway holding a session
\* of its caller, and nothing is closed
C24_SuppliedKept ==
    session = "supplied" /\ "supplied" \in close_calls /\ closed = {}

\* The records of the inventory of the current poll that carry a unique id
IdentifiedRecords == SelectSeq(all_devices, LAMBDA x : UniID(x) # None)

\* A record poll_status hands to the climate refresh
IsThermostat(x) == KindFilter("climate", x)

SensorKey(x) == Val(UniID(x)) \o "_temp"

\* C25: once the sensor refresh of a poll has assigned the registry, no
\* record of the inventory classified as a thermostat has an entry in the
\* sensor registry, and every other record with a temperature measurement has
\* the entry keyed by its base id and "_temp", whose state is that value.
C25_SensorUnlessThermostat ==
    "sensor" \in swapped =>
       \A i \in 1..Len(IdentifiedRecords) :
          LET x == IdentifiedRecords[i]
              value == Attr(x, "sTempS", "MeasuredValue_x100")
          IN  IF IsThermostat(x) THEN SensorKey(x) \notin DOMAIN devices["sensor"]
              ELSE value # None =>
                      /\ SensorKey(x) \in DOMAIN devices["sensor"]
                      /\ devices["sensor"][SensorKey(x)].unique_id = SensorKey(x)
                      /\ devices["sensor"][SensorKey(x)].state.hundredths = Val(value)

\* No record of the inventory of the current poll fails to decode
AllDecoded ==
    \A i \in 1..Len(all_devices) : \A k \in DictKinds \cup {"gateway"} :
       KindFilter(k, all_devices[i]) =>
          Decode(k, all_devices[i]).tag \notin {"error", "raise"}

\* C26: after a poll_status that returned, in which no refresh raised and
\* every record decoded, the registry of every kind holds exactly the devices
\* decoded from the inventory of this poll (none when the inventory has no
\* record of the kind), and the gateway device is the one decoded from it.
C26_RegistryIsThisPoll ==
    (result["poll"].state = "returned" /\ threw = {} /\ AllDecoded) =>
       /\ \A k \in DictKinds :
             devices[k] = DecodedFrom(k, FilterSeq(k, all_devices), EmptyDict)
       /\ gateway_device = LastGateway(FilterSeq("gateway", all_devices), None)

\* What C27 says of one kind when a poll returns: the registry was replaced by
\* exactly the devices that decode from the kind's records, and with
\* send_callback every one of them was announced to the kind's subscribers
IsolatedRefresh(k) ==
    FilterSeq(k, all_devices) # <<>> =>
       /\ k \in swapped
       /\ devices[k] = DecodedFrom(k, FilterSeq(k, all_devices), EmptyDict)
       /\ (send_callback /\ callbacks[k] # <<>>) =>
             \A id \in DOMAIN devices[k] : NotifiedFor(k, id)

PollReturns ==
    pc["poll"] # "idle" /\ pc'["poll"] = "idle" /\ result'["poll"].state = "returned"

\* C27: when a poll_status whose requests all succeeded returns, every kind
\* with records in the inventory has had its registry replaced by exactly the
\* devices that decode from those records - whatever other records of the
\* response failed to decode and whatever subscribers raised - and with
\* send_callback every such device was announced to the subscribers of its kind.
C27_RecordFailureIsolated ==
    [][PollReturns => \A k \in DictKinds : IsolatedRefresh(k)']_vars

\* The same for every kind but the switch kind
C27_IsolatedButSwitch ==
    [][PollReturns => \A k \in DictKinds \ {"switch"} : IsolatedRefresh(k)']_vars

\* Whether the last request of task t failed, t has made no request since,
\* and the lock it held is free again with a caller waiting for it
ReleasedAfterFailure(t) ==
    /\ error[t] # "" /\ pc[t] \notin {"acquire", "http", "respond"}
    /\ lockOwner = None /\ waiters # <<>>

\* C28: the lock is held only by a task whose request is in progress (its
\* exchange running or its response being handled), so every way a request
\* ends releases it; and under fair scheduling, with every exchange ending,
\* every task suspended in acquire() gets the lock and sends its request.
C28_GateReleasedAndServed ==
    /\ [](lockOwner # None => pc[Val(lockOwner)] \in {"http", "respond"})
    /\ \A t \in Tasks : (pc[t] = "acquire") ~> (pc[t] = "http")

\* C28 witness: the first request of a poll has failed and released the
\* lock while a write waits for it, connect() never having been called
C28_Witness ==
    /\ ReleasedAfterFailure("poll") /\ Head(waiters) = "write"
    /\ result["connect"] = Idle /\ pc["connect"] = "idle"

\* The step at which poll_status goes on after its inventory read failed
InventoryReadFailed ==
    /\ pc["poll"] = "respond" /\ op["poll"] = "readall"
    /\ exchange["poll"] # "success"
    /\ pc'["poll"] # "respond"

\* C29: when the inventory read of poll_status fails, poll_status raises the
\* error of the request (a connection error for a timeout or a refused
\* connection, a command error otherwise) and changes no registry nor the
\* gateway device at that step; and a poll_status that raised has sent the
\* inventory read as its only request, called no subscriber, replaced no
\* registry (the gateway device changes by such a replacement only) and
\* left the registries as they were when it started.
C29_InventoryFailurePropagates ==
    /\ [][InventoryReadFailed =>
            /\ pc'["poll"] = "idle"
            /\ result'["poll"] =
                  Raised(IF exchange["poll"] \in {"timeout", "refused"}
                         THEN "IT600ConnectionError" ELSE "IT600CommandError")
            /\ UNCHANGED registries]_vars
    /\ [][gateway_device' # gateway_device => "gateway" \in swapped']_vars
    /\ [](result["poll"].state = "raised" =>
            /\ posts = <<ReadAll>>
            /\ calls = <<>>
            /\ swapped = {}
            /\ devices = before)

\* C29 witness: a poll with send_callback raised at its inventory read, on a
\* gateway that has a switch subscriber and a gateway device and switches
\* from an earlier poll
C29_Witness ==
    /\ result["poll"].state = "raised" /\ send_callback
    /\ callbacks["switch"] # <<>>
    /\ devices["switch"] # EmptyDict /\ gateway_device # None

\* A write operation issued by a subscriber is over
SubscriberWriteOver == pc["write"] # "idle" /\ pc'["write"] = "idle"

\* C30: while a subscriber is being invoked the poll does not hold the lock;
\* a write operation a subscriber issues ends (its POST sent and its response
\* handled) while the poll is still inside that subscriber call; the poll
\* then runs to its end, and when it returns every kind with records has its
\* registry replaced by the devices decoded and every one of them announced.
C30_SubscriberMayWrite ==
    /\ [](pc["poll"] = "notify" => lockOwner # Some("poll"))
    /\ [][SubscriberWriteOver =>
            /\ sent["write"] = 1
            /\ pc["poll"] = "notify" /\ pc'["poll"] = "notify"
            /\ result'["write"] = (IF exchange["write"] = "success" THEN Returned("")
                                   ELSE Raised("IT600ConnectionError"))]_vars
    /\ (pc["write"] # "idle") ~> (pc["write"] = "idle")
    /\ (pc["poll"] # "idle") ~> (pc["poll"] = "idle")
    /\ [][PollReturns => \A k \in DictKinds : IsolatedRefresh(k)']_vars

\* C30 witness: the poll is inside the call of the switch subscriber for the
\* first of two switch endpoints, and the write that subscriber issued has
\* been sent and answered and has returned
C30_Witness ==
    /\ pc["poll"] = "notify" /\ Kind = "switch" /\ current = Some("s1_1")
    /\ pc["write"] = "idle" /\ result["write"] = Returned("")
    /\ sent["write"] = 1 /\ Val(wcall).known

\* A step of connect() or of a write operation
ConnectOrWriteStep ==
    \/ pc'["connect"] # pc["connect"] \/ result'["connect"] # result["connect"]
    \/ probe' # probe
    \/ pc'["write"] # pc["write"] \/ writes' # writes

\* C31: no step of connect() or of a write operation, whether it starts the
\* operation, sends its request, or ends it by a return or a raise, changes a
\* registry or the gateway device; the registries change only at a step of
\* the refresh loop of poll_status. So the snapshot a getter returns after a
\* successful write is the one it returned before.
C31_OnlyPollChangesRegistries ==
    /\ [][ConnectOrWriteStep => UNCHANGED registries]_vars
    /\ [][registries' # registries => pc["poll"] = "loop"]_vars

\* C31 witness: turn_off_switch_device has returned for a switch that the
\* registry still shows switched on, and connect() has returned
C31_Witness ==
    /\ wcall # None
    /\ Val(wcall).name = "turn_off_switch_device" /\ Val(wcall).known
    /\ pc["write"] = "idle" /\ result["write"] = Returned("") /\ sent["write"] = 1
    /\ GetDevice("switch", "s1_1") # None /\ Val(GetDevice("switch", "s1_1")).is_on
    /\ result["connect"].state = "returned"

\* The complete registry of a kind decoded from the response one of the two
\* poll_status calls got, or would get, for its inventory
CompleteSets(k) ==
    {DecodedFrom(k, ByIdResponse(k, inventory), EmptyDict) :
        inventory \in {all_devices, all_devices2}}

\* C32: with two poll_status calls without send_callback interleaved, every
\* step leaves the registry of a kind as it was or replaces it by the complete
\* set of devices decoded from the read-by-id response of one of the two
\* calls; so a registry is at every moment the one from before the polls or
\* the complete set of one response, never a mixture or a part of one.
C32_RegistryOfOneResponse ==
    [][\A k \in DictKinds :
          devices'[k] # devices[k] => devices'[k] \in CompleteSets(k)']_vars

\* C32 witness: both calls are between their inventory read and their return,
\* with different inventories, and the switch registry holds the complete set
\* of the second call while the first call is in its own switch refresh
C32_Witness ==
    /\ pc["poll"] = "loop" /\ Kind = "switch" /\ local_devices # EmptyDict
    /\ result["poll2"].state = "running" /\ kindIdx2 > 5
    /\ all_devices # all_devices2
    /\ devices["switch"] = DecodedFrom("switch", ByIdResponse("switch", all_devices2), EmptyDict)
    /\ devices["switch"] # DecodedFrom("switch", ByIdResponse("switch", all_devices), EmptyDict)

\* The step at which poll_status goes on after the read-by-id request of a
\* refresh was cancelled
CancelledInRefresh ==
    /\ pc["poll"] = "respond" /\ op["poll"] = "byid"
    /\ exchange["poll"] = Cancelled
    /\ pc'["poll"] # "respond"

\* C33: when poll_status is cancelled while it awaits the read-by-id request
\* of a refresh, poll_status ends at that step by raising the cancellation to
\* its caller, and so sends no further request and refreshes no further kind.
C33_CancellationEndsPoll ==
    [][CancelledInRefresh =>
          /\ pc'["poll"] = "idle"
          /\ result'["poll"] = Raised("CancelledError")]_vars

\* C34: once the climate refresh of a poll has assigned the registry, every
\* complete dual-setpoint record of the inventory has a snapshot whose
\* hvac_action is off for hold type 7 and otherwise idle for running state 0,
\* heating for running state 33, cooling for running state 66, and for any
\* other running state heating-idle when the system mode is heat (4) and
\* cooling-idle when it is not.
C34_DualActionByRunningState ==
    "climate" \in swapped =>
       \A i \in 1..Len(ClimateRecords) :
          LET x == ClimateRecords[i]
              running == Attr(x, "sTherS", "RunningState")
              heat == Attr(x, "sTherS", "SystemMode") = Some(4)
          IN  (~HasSingleCluster(x) /\ DualComplete(x)) =>
                 /\ Val(UniID(x)) \in DOMAIN devices["climate"]
                 /\ Snapshot(x).hvac_action =
                       (IF HoldOf(x) = Some(7) THEN CURRENT_HVAC_OFF
                        ELSE IF running = Some(0) THEN CURRENT_HVAC_IDLE
                        ELSE IF running = Some(33) THEN CURRENT_HVAC_HEAT
                        ELSE IF running = Some(66) THEN CURRENT_HVAC_COOL
                        ELSE IF heat THEN CURRENT_HVAC_HEAT_IDLE
                        ELSE CURRENT_HVAC_COOL_IDLE)

\* The elements of a sequence
Range(seq) == {seq[i] : i \in 1..Len(seq)}

\* A request of the write operation name for a snapshot of the registry exists
Requested(name) ==
    /\ wcall # None /\ Call.name = name /\ Call.known
    /\ request["write"] # None

\* The hvac_mode the decoder gives for the attribute a mode write set, were it
\* echoed with the value written (a string equals neither 4 nor 3)
ModeReadBack(written) ==
    IF written.cluster = "sIT600TH"
    THEN HvacModeSingle(Some(written.value.v))
    ELSE IF written.value.type = "int" THEN HvacModeDual(Some(written.value.v))
    ELSE HVAC_MODE_AUTO

FanCode(f) ==
    CASE f = FAN_MODE_AUTO -> 5
      [] f = FAN_MODE_HIGH -> 3
      [] f = FAN_MODE_MEDIUM -> 2
      [] f = FAN_MODE_LOW -> 1
      [] f = FAN_MODE_OFF -> 0

\* A call of the write operation name for a snapshot of the registry starts
Calls(name) ==
    /\ pc["write"] = "idle" /\ wcall' # wcall
    /\ Val(wcall').name = name /\ Val(wcall').known

CoverRecords ==
    SelectSeq(FilterSeq("cover", all_devices), LAMBDA x : UniID(x) # None)

\* C37: once the cover refresh of a poll has assigned the registry, the
\* snapshot of every cover record that carries a target (a move-to-level field
\* of at least two hex digits, whose first byte is the target) has is_opening
\* true exactly when its current position is below the target and is_closing
\* true exactly when it is above, and the snapshot of a record without target
\* has both unset; and at every moment no snapshot of the cover registry has
\* both true, and each has both set or both unset.
C37_MovingByTarget ==
    /\ \A key \in DOMAIN devices["cover"] :
          LET d == devices["cover"][key]
          IN  /\ ~(d.is_opening = Some(TRUE) /\ d.is_closing = Some(TRUE))
              /\ (d.is_opening = None) <=> (d.is_closing = None)
    /\ "cover" \in swapped =>
          \A i \in 1..Len(CoverRecords) :
             LET x == CoverRecords[i]
                 key == Val(UniID(x))
                 field == Attr(x, "sLevelS", "MoveToLevel_f")
                 level == Attr(x, "sLevelS", "CurrentLevel")
             IN  key \in DOMAIN devices["cover"] =>
                    IF field # None /\ Len(Val(field)) >= 2
                    THEN LET target == 16 * Val(field)[1] + Val(field)[2]
                         IN  /\ devices["cover"][key].is_opening = Some((Val(level) < target))
                             /\ devices["cover"][key].is_closing = Some((Val(level) > target))
                    ELSE /\ devices["cover"][key].is_opening = None
                         /\ devices["cover"][key].is_closing = None

\* C37 witness: one poll registered a cover at its target (neither), covers
\* below their targets (opening), a cover above its target (closing) and a
\* cover without target (both unset)
C37_Witness ==
    /\ "cover" \in swapped /\ all_devices = InvCovers
    /\ {"c2", "c4", "c5", "c6", "c7"} \subseteq DOMAIN devices["cover"]
    /\ devices["cover"]["c2"].is_opening = Some(FALSE)
    /\ devices["cover"]["c2"].is_closing = Some(FALSE)
    /\ devices["cover"]["c4"].is_opening = Some(TRUE)
    /\ devices["cover"]["c7"].is_opening = Some(TRUE)
    /\ devices["cover"]["c5"].is_closing = Some(TRUE)
    /\ devices["cover"]["c6"].is_opening = None
    /\ devices["cover"]["c6"].is_closing = None

\* the binary-sensor records of the inventory in hand that carry an id
DetectorRecords ==
    SelectSeq(FilterSeq("binary_sensor", all_devices), LAMBDA x : UniID(x) # None)

\* C38: no binary-sensor registry entry has the button model; after the refresh
\* of a poll every record that lacks the attribute selected for its model (relay
\* status for valves and receivers, alarm status otherwise) has no entry, and
\* every entry's is_on tells whether that attribute equals 1
C38_BinarySensorByModel ==
    /\ \A key \in DOMAIN devices["binary_sensor"] :
          devices["binary_sensor"][key].model # Some("SB600")
    /\ "binary_sensor" \in swapped =>
          \A i \in 1..Len(DetectorRecords) :
             LET x == DetectorRecords[i]
                 key == Val(UniID(x))
                 relay == Attr(x, "sIT600I", "RelayStatus")
                 alarm == Attr(x, "sIASZS", "ErrorIASZSAlarmed1")
                 selected == IF Model(x) \in {Some("it600MINITRV"), Some("it600Receiver")}
                             THEN relay ELSE alarm
             IN  IF selected = None
                 THEN key \notin DOMAIN devices["binary_sensor"]
                 ELSE key \in DOMAIN devices["binary_sensor"] =>
                         devices["binary_sensor"][key].is_on = (selected = Some(1))

\* detectors, valves and receivers were decoded: the button and the records
\* without their attribute are absent, the others read on and off
C38_Witness ==
    /\ "binary_sensor" \in swapped
    /\ all_devices = InvDetectors
    /\ DOMAIN devices["binary_sensor"] = {"w1", "w2", "w3", "v1", "v2"}
    /\ devices["binary_sensor"]["w1"].is_on
    /\ ~devices["binary_sensor"]["w2"].is_on
    /\ ~devices["binary_sensor"]["w3"].is_on
    /\ devices["binary_sensor"]["v1"].is_on
    /\ ~devices["binary_sensor"]["v2"].is_on

\* A request of set temperature, set mode or set preset for a snapshot of the
\* registry exists
ClimateWriteRequested ==
    \/ Requested("set_climate_device_temperature")
    \/ Requested("set_climate_device_mode")
    \/ Requested("set_climate_device_preset")

C40_OneInstance ==
    /\ [](/\ Len(made) <= 1
          /\ \A t \in Threads :
                tret[t] # None => tret[t] = Some(1) /\ held = Some(1))
    /\ [][held # None => held' = held /\ made' = made]_vars

\* three threads found the class empty together: one constructed the
\* gateway and returned it, one entered the lock after it and found the
\* gateway there, and one returned it although it passed other arguments
C40_Witness ==
    /\ Len(made) = 1
    /\ \E t, u, w \in Threads :
          /\ t # u /\ u # w /\ t # w
          /\ tpc[t] = "idle" /\ tret[t] = Some(1) /\ Val(targs[t]) = made[1]
          /\ tpc[u] = "exit" /\ fresh[u] = None /\ held = Some(1)
          /\ tpc[w] = "idle" /\ tret[w] = Some(1) /\ Val(targs[w]) # made[1]

====
